---------------------------- MODULE Spec2Model ----------------------------
(***************************************************************************)
(* Model of backend/app/routes.py: the upload pipeline (load, clean,       *)
(* cache, suggest), the in-memory session cache with expiry, and the       *)
(* chart-data endpoint.                                                    *)
(*                                                                         *)
(* Text is a sequence of one-character strings, so that lower(), strip()   *)
(* and replace() are computed and not assumed.  A finite float is an       *)
(* integer count of hundredths; an integer is itself.                      *)
(***************************************************************************)
EXTENDS Integers, Sequences, FiniteSets, TLC

VARIABLES
    now,        \* the wall clock read by datetime.now(), in seconds
    cache,      \* _dataframe_cache: session id -> entry
    used,       \* session ids uuid4() has already returned
    apiKey,     \* settings.OPENAI_API_KEY ("" when not configured)
    req,        \* the upload requests in flight: their position and response
    last,       \* the response of the latest chart-data request
    arg,        \* input of the pure function under test
    out1,       \* its result
    out2,       \* the result of applying it again
    step,       \* position of the pure-function harness
    tasks,      \* the coroutines of the event loop, statement by statement
    running     \* the coroutine that holds the event loop, "none" when free

vars == <<now, cache, used, apiKey, req, last, arg, out1, out2, step, tasks, running>>

(***************************************************************************)
(* Bounds of the model.                                                    *)
(***************************************************************************)
MaxStrLen == 4      \* longest text cell given to clean_value
MaxNum == 1         \* largest magnitude of a number given to clean_value

(***************************************************************************)
(* Scalars: the values a cell or a clean_value argument can hold.          *)
(*   k = "None"   Python None                                              *)
(*   k = "nan"    float NaN                                                *)
(*   k = "inf"    float infinity, n its sign                               *)
(*   k = "float"  finite float, n hundredths                               *)
(*   k = "npint"  numpy integer n                                          *)
(*   k = "int"    Python int n                                             *)
(*   k = "str"    text s                                                   *)
(***************************************************************************)
Scalar(k, n, s) == [k |-> k, n |-> n, s |-> s]
None == Scalar("None", 0, <<>>)
NaN == Scalar("nan", 0, <<>>)
PosInf == Scalar("inf", 1, <<>>)
NegInf == Scalar("inf", -1, <<>>)
Float(n) == Scalar("float", n, <<>>)
NpInt(n) == Scalar("npint", n, <<>>)
PyInt(n) == Scalar("int", n, <<>>)
Str(s) == Scalar("str", 0, s)

\* str.lower() on one character
LowerChar(c) ==
    CASE c = "A" -> "a"
      [] c = "E" -> "e"
      [] c = "N" -> "n"
      [] c = "O" -> "o"
      [] c = "I" -> "i"
      [] c = "F" -> "f"
      [] c = "C" -> "c"
      [] c = "S" -> "s"
      [] c = "V" -> "v"
      [] c = "X" -> "x"
      [] c = "L" -> "l"
      [] c = "T" -> "t"
      [] OTHER -> c

\* str.lower()
Lower(s) == [i \in DOMAIN s |-> LowerChar(s[i])]

\* pd.isna on a scalar
IsNa(x) == x.k \in {"None", "nan"}

\* the texts clean_value turns into None
NullTexts == { <<"n", "a", "n">>, <<"n", "o", "n", "e">>, <<>> }

\* clean_value without lowering the text before the comparison
clean_value_NoLower(x) ==
    IF x.k = "None" THEN None
    ELSE IF IsNa(x) THEN None
    ELSE IF x.k \in {"float", "nan", "inf"}
         THEN IF x.k \in {"nan", "inf"} THEN None ELSE Float(x.n)
    ELSE IF x.k = "npint" THEN PyInt(x.n)
    ELSE IF x.k = "str" /\ x.s \in NullTexts THEN None
    ELSE x

\* routes.py clean_value
clean_value(x) ==
    IF x.k = "None" THEN None
    ELSE IF IsNa(x) THEN None
    ELSE IF x.k \in {"float", "nan", "inf"}
         THEN IF x.k \in {"nan", "inf"} THEN None ELSE Float(x.n)
    ELSE IF x.k = "npint" THEN PyInt(x.n)
    ELSE IF x.k = "str" /\ Lower(x.s) \in NullTexts THEN None
    ELSE x


(***************************************************************************)
(* Text helpers: str.replace(c, ''), str.strip(), astype(str) and the      *)
(* parser behind pd.to_numeric(errors='coerce').                           *)
(***************************************************************************)
Digit == {"0", "1", "2", "3", "4", "5", "6", "7", "8", "9"}
Whitespace == {" "}

DigitVal(c) ==
    CASE c = "0" -> 0 [] c = "1" -> 1 [] c = "2" -> 2 [] c = "3" -> 3
      [] c = "4" -> 4 [] c = "5" -> 5 [] c = "6" -> 6 [] c = "7" -> 7
      [] c = "8" -> 8 [] c = "9" -> 9

DigitChar(d) ==
    CASE d = 0 -> "0" [] d = 1 -> "1" [] d = 2 -> "2" [] d = 3 -> "3"
      [] d = 4 -> "4" [] d = 5 -> "5" [] d = 6 -> "6" [] d = 7 -> "7"
      [] d = 8 -> "8" [] d = 9 -> "9"

\* .str.replace(c, '', regex=False)
RemoveChar(s, c) == SelectSeq(s, LAMBDA ch : ch # c)

RECURSIVE LStrip(_)
LStrip(s) == IF s # <<>> /\ Head(s) \in Whitespace THEN LStrip(Tail(s)) ELSE s

RECURSIVE RStrip(_)
RStrip(s) ==
    IF s # <<>> /\ s[Len(s)] \in Whitespace
    THEN RStrip(SubSeq(s, 1, Len(s) - 1))
    ELSE s

\* .str.strip()
Strip(s) == RStrip(LStrip(s))

\* decimal digits of a natural number
RECURSIVE Digits(_)
Digits(n) == IF n < 10 THEN <<DigitChar(n)>> ELSE Digits(n \div 10) \o <<DigitChar(n % 10)>>

\* value of a non-empty run of digits
RECURSIVE DigitsVal(_)
DigitsVal(s) ==
    IF s = <<>> THEN 0 ELSE 10 * DigitsVal(SubSeq(s, 1, Len(s) - 1)) + DigitVal(s[Len(s)])

AllDigits(s) == s # <<>> /\ \A i \in DOMAIN s : s[i] \in Digit

\* position of the first "." of s, 0 when there is none
DotAt(s) == IF \E i \in DOMAIN s : s[i] = "."
            THEN CHOOSE i \in DOMAIN s : s[i] = "." /\ \A j \in 1..(i - 1) : s[j] # "."
            ELSE 0

\* str(x) of a float given in hundredths
FloatText(n) ==
    LET m == IF n < 0 THEN -n ELSE n
        frac == m % 100
        body == Digits(m \div 100) \o <<".">> \o
                (IF frac % 10 = 0 THEN <<DigitChar(frac \div 10)>>
                 ELSE <<DigitChar(frac \div 10), DigitChar(frac % 10)>>)
    IN  IF n < 0 THEN <<"-">> \o body ELSE body

IntText(n) == IF n < 0 THEN <<"-">> \o Digits(-n) ELSE Digits(n)

\* one cell of Series.astype(str)
AsStr(x) ==
    CASE x.k = "str" -> x.s
      [] x.k = "None" -> <<"N", "o", "n", "e">>
      [] x.k = "nan" -> <<"n", "a", "n">>
      [] x.k = "inf" -> IF x.n < 0 THEN <<"-", "i", "n", "f">> ELSE <<"i", "n", "f">>
      [] x.k = "float" -> FloatText(x.n)
      [] OTHER -> IntText(x.n)

InfTexts == { <<"i", "n", "f">>, <<"i", "n", "f", "i", "n", "i", "t", "y">> }

\* an unsigned decimal: digits, or digits "." one or two digits
UnsignedNumber(s) ==
    LET d == DotAt(s)
    IN  IF d = 0 THEN
            IF AllDigits(s) THEN PyInt(DigitsVal(s)) ELSE NaN
        ELSE
            LET ip == SubSeq(s, 1, d - 1)
                fp == SubSeq(s, d + 1, Len(s))
            IN  IF AllDigits(ip) /\ AllDigits(fp) /\ Len(fp) <= 2
                THEN Float(100 * DigitsVal(ip) +
                           (IF Len(fp) = 1 THEN 10 * DigitsVal(fp) ELSE DigitsVal(fp)))
                ELSE NaN

Negate(x) ==
    CASE x.k = "int" -> PyInt(-x.n)
      [] x.k = "float" -> Float(-x.n)
      [] x.k = "inf" -> Scalar("inf", -x.n, <<>>)
      [] OTHER -> x

\* one cell of pd.to_numeric(errors='coerce') on text: an integer, a float,
\* an infinity, or NaN for what does not parse
ParseUnsigned(s) == IF Lower(s) \in InfTexts THEN PosInf ELSE UnsignedNumber(s)

ToNumericCell(s) ==
    IF s # <<>> /\ Head(s) = "-" THEN Negate(ParseUnsigned(Tail(s)))
    ELSE IF s # <<>> /\ Head(s) = "+" THEN ParseUnsigned(Tail(s))
    ELSE ParseUnsigned(s)

(***************************************************************************)
(* DataFrame: n rows, cols a sequence of [name, dtype, cells].             *)
(***************************************************************************)
Column(name, dtype, cells) == [name |-> name, dtype |-> dtype, cells |-> cells]
DataFrame(n, cols) == [n |-> n, cols |-> cols]

\* df.empty
IsEmpty(df) == df.n = 0 \/ Len(df.cols) = 0

\* df.columns
ColumnNames(df) == [i \in DOMAIN df.cols |-> df.cols[i].name]
HasColumn(df, c) == \E i \in DOMAIN df.cols : df.cols[i].name = c
ColumnOf(df, c) == df.cols[CHOOSE i \in DOMAIN df.cols : df.cols[i].name = c]

\* pd.api.types.is_numeric_dtype
IsNumericDtype(col) == col.dtype \in {"float64", "int64"}

\* the cells of a sequence at the positions keep (ascending)
RECURSIVE Pick(_, _, _)
Pick(cells, keep, i) ==
    IF i > Len(cells) THEN <<>>
    ELSE (IF i \in keep THEN <<cells[i]>> ELSE <<>>) \o Pick(cells, keep, i + 1)

\* df.dropna(how='all')
DropAllNullRows(df) ==
    LET keep == { i \in 1..df.n : \E j \in DOMAIN df.cols : ~IsNa(df.cols[j].cells[i]) }
    IN  DataFrame(Cardinality(keep),
                  [j \in DOMAIN df.cols |->
                      Column(df.cols[j].name, df.cols[j].dtype,
                             Pick(df.cols[j].cells, keep, 1))])

\* the object a function given to Series.apply / Series.map receives
Box(x) == IF x.k = "npint" THEN PyInt(x.n) ELSE x

\* The Series that apply/map builds from the function's results
\* (lib.map_infer with convert=True): text keeps dtype object; numbers
\* mixed with None become float64 and each None becomes NaN again;
\* integers alone become int64; None alone stays object.
InferSeries(name, vals) ==
    IF \E i \in DOMAIN vals : vals[i].k = "str" THEN Column(name, "object", vals)
    ELSE IF \A i \in DOMAIN vals : vals[i].k = "None" THEN Column(name, "object", vals)
    ELSE IF \A i \in DOMAIN vals : vals[i].k \in {"int", "npint"}
         THEN Column(name, "int64", [i \in DOMAIN vals |-> NpInt(vals[i].n)])
    ELSE Column(name, "float64",
                [i \in DOMAIN vals |->
                    CASE vals[i].k = "None" -> NaN
                      [] vals[i].k \in {"int", "npint"} -> Float(100 * vals[i].n)
                      [] OTHER -> vals[i]])

\* the column pd.to_numeric returns: int64 when every cell is an integer,
\* float64 otherwise
ToNumeric(name, texts) ==
    LET vals == [i \in DOMAIN texts |-> ToNumericCell(texts[i])]
    IN  IF vals # <<>> /\ \A i \in DOMAIN vals : vals[i].k = "int"
        THEN Column(name, "int64", [i \in DOMAIN vals |-> NpInt(vals[i].n)])
        ELSE Column(name, "float64",
                    [i \in DOMAIN vals |->
                        IF vals[i].k = "int" THEN Float(100 * vals[i].n) ELSE vals[i]])

\* a conversion decided cell by cell: the cells that parse become numbers
\* and the others keep their text
CoerceColumn_PerCell(col) ==
    IF col.dtype # "object" THEN col
    ELSE
        LET cleaned == [i \in DOMAIN col.cells |->
                           Strip(RemoveChar(RemoveChar(AsStr(col.cells[i]), "$"), ","))]
            numeric_values == ToNumeric(col.name, cleaned)
        IN  Column(col.name, "object",
                   [i \in DOMAIN col.cells |->
                       IF numeric_values.cells[i].k = "nan" THEN col.cells[i]
                       ELSE numeric_values.cells[i]])

\* upload_file, the body of the loop over object columns
CoerceColumn(col) ==
    IF col.dtype # "object" THEN col
    ELSE
        LET cleaned == [i \in DOMAIN col.cells |->
                           Strip(RemoveChar(RemoveChar(AsStr(col.cells[i]), "$"), ","))]
            numeric_values == ToNumeric(col.name, cleaned)
        IN  IF ~(\A i \in DOMAIN numeric_values.cells : numeric_values.cells[i].k = "nan")
            THEN numeric_values
            ELSE col

CoerceCurrency(df) == DataFrame(df.n, [j \in DOMAIN df.cols |-> CoerceColumn(df.cols[j])])

\* df.replace([np.inf, -np.inf], np.nan)
ReplaceInf(df) ==
    DataFrame(df.n,
              [j \in DOMAIN df.cols |->
                  Column(df.cols[j].name, df.cols[j].dtype,
                         [i \in DOMAIN df.cols[j].cells |->
                             IF df.cols[j].cells[i].k = "inf" THEN NaN
                             ELSE df.cols[j].cells[i]])])

\* df[col] = df[col].apply(lambda x: None if pd.isna(x) else x), every column
NanToNone(df) ==
    DataFrame(df.n,
              [j \in DOMAIN df.cols |->
                  InferSeries(df.cols[j].name,
                              [i \in DOMAIN df.cols[j].cells |->
                                  IF IsNa(Box(df.cols[j].cells[i])) THEN None
                                  ELSE Box(df.cols[j].cells[i])])])

\* df[col] = df[col].map(clean_value), every column
CleanValues(df) ==
    DataFrame(df.n,
              [j \in DOMAIN df.cols |->
                  InferSeries(df.cols[j].name,
                              [i \in DOMAIN df.cols[j].cells |->
                                  clean_value(Box(df.cols[j].cells[i]))])])


(***************************************************************************)
(* Suggestion step: analyze_dataframe_with_ai.                             *)
(*                                                                         *)
(* One call of the summarizer ends in one of these ways (kind):            *)
(*   "raises"         client.chat.completions.create raised exc            *)
(*   "no_choices"     response.choices is empty or has no message          *)
(*   "content_none"   message.content is None (.strip() raises)            *)
(*   "content_empty"  the content is empty after strip()                   *)
(*   "not_json"       json.loads fails and the text holds no [ ... ]       *)
(*   "bad_array"      json.loads fails on the text between [ and ] too     *)
(*   "json"           the text parses; is_list and items describe it       *)
(***************************************************************************)
MaxViz == 2         \* longest array the summarizer replies with
MaxMarks == 2       \* most markers one exception message contains

RequiredKeys == {"title", "chart_type", "parameters", "insight"}
SuggestChartTypes == {"bar", "line", "pie", "scatter", "histogram", "area"}

\* substrings the classification looks for in str(e).lower()
Markers == {"rate limit", "quota", "rate_limit_exceeded", "429",
            "authentication", "key", "invalid_api_key", "unauthorized"}

ExcClasses == {"RateLimitError", "AuthenticationError", "APIConnectionError", "TimeoutError"}

\* "API" in type(e).__name__
ApiInTypeName(cls) == cls \in {"APIConnectionError"}

\* the status_code attribute of an exception of the class (0: it has none)
StatusCodeOf(cls) ==
    CASE cls = "RateLimitError" -> 429
      [] cls = "AuthenticationError" -> 401
      [] OTHER -> 0

Exc(cls, msg, status_code) == [cls |-> cls, msg |-> msg, status_code |-> status_code]
NoExc == Exc("", {}, 0)

Excs == { Exc(c, m, StatusCodeOf(c)) :
            c \in ExcClasses,
            m \in { mm \in SUBSET Markers :
                      /\ Cardinality(mm) <= MaxMarks
                      /\ ("invalid_api_key" \in mm => "key" \in mm) } }

\* one element of the parsed array
Viz(is_dict, keys, parameters_is_dict, chart_type) ==
    [is_dict |-> is_dict, keys |-> keys,
     parameters_is_dict |-> parameters_is_dict, chart_type |-> chart_type]

\* the elements a reply is made of: one that is no object, one that lacks a
\* key, and objects with the four keys of every parameters and chart type
VizElems ==
    { Viz(FALSE, {}, FALSE, ""), Viz(TRUE, RequiredKeys \ {"insight"}, TRUE, "bar") } \cup
    { Viz(TRUE, RequiredKeys, p, c) : p \in BOOLEAN,
                                      c \in {"bar", "histogram", "box", "heatmap"} }

RECURSIVE SeqsUpTo(_, _)
SeqsUpTo(S, n) ==
    IF n = 0 THEN { <<>> }
    ELSE LET shorter == SeqsUpTo(S, n - 1)
         IN  shorter \cup { Append(q, e) : q \in { t \in shorter : Len(t) = n - 1 }, e \in S }

Outcome(kind, exc, is_list, items) ==
    [kind |-> kind, exc |-> exc, is_list |-> is_list, items |-> items]
NoOutcome == Outcome("", NoExc, FALSE, <<>>)

Outcomes ==
    { Outcome("raises", e, FALSE, <<>>) : e \in Excs } \cup
    { Outcome(k, NoExc, FALSE, <<>>) :
        k \in {"no_choices", "content_none", "content_empty", "not_json", "bad_array"} } \cup
    { Outcome("json", NoExc, FALSE, <<>>) } \cup
    { Outcome("json", NoExc, TRUE, its) : its \in SeqsUpTo(VizElems, MaxViz) }

\* the replies the request handlers of the whole server are run against
FewOutcomes ==
    { Outcome("not_json", NoExc, FALSE, <<>>),
      Outcome("json", NoExc, TRUE, << Viz(TRUE, RequiredKeys, TRUE, "bar") >>) }

\* lines 219-225
is_rate_limit(e) ==
    \/ "rate limit" \in e.msg
    \/ "quota" \in e.msg
    \/ "rate_limit_exceeded" \in e.msg
    \/ "429" \in e.msg
    \/ e.status_code = 429

\* lines 227-234
is_auth_error(e) ==
    \/ ApiInTypeName(e.cls)
    \/ "authentication" \in e.msg
    \/ "key" \in e.msg
    \/ "invalid_api_key" \in e.msg
    \/ "unauthorized" \in e.msg
    \/ e.status_code = 401

\* lines 172-188 on one element: does it pass
VizPasses(viz) ==
    /\ viz.is_dict
    /\ RequiredKeys \subseteq viz.keys
    /\ viz.parameters_is_dict
    /\ viz.chart_type \in SuggestChartTypes

\* a validation that looks at the first element only
Validates_FirstOnly(o) ==
    /\ o.kind = "json"
    /\ o.is_list
    /\ Len(o.items) # 0
    /\ VizPasses(o.items[1])

\* lines 132-190: the try block returns visualizations
Validates(o) ==
    /\ o.kind = "json"
    /\ o.is_list
    /\ Len(o.items) # 0
    /\ \A i \in DOMAIN o.items : VizPasses(o.items[i])

\* which except clause handles a failed attempt: the ValueError raised by
\* the checks (JSONDecodeError is a ValueError), or any other exception
Handler(o) ==
    IF o.kind \in {"raises", "content_none"} THEN "Exception" ELSE "ValueError"

\* the exception the third except clause sees
Caught(o) ==
    IF o.kind = "raises" THEN o.exc ELSE Exc("AttributeError", {}, 0)

\* a retry bound of two, as the docstring words it
MayRetry_Two(retry_count) == retry_count < 2

\* lines 194, 205, 236: retry_count < 1
MayRetry(retry_count) == retry_count < 1

\* one second before every retry
RetryDelay_Flat(o) == IF Handler(o) = "Exception" THEN 1 ELSE 1

\* lines 195, 206, 238-241: the sleep before the retry
RetryDelay(o) ==
    IF Handler(o) = "Exception" /\ is_rate_limit(Caught(o)) THEN 5 ELSE 1

Response(status, kind) == [status |-> status, kind |-> kind]

\* the rate-limit test placed before the authentication test
TerminalError_RateFirst(o) ==
    IF Handler(o) = "ValueError" THEN Response(500, "AnalysisFailed")
    ELSE IF is_rate_limit(Caught(o)) THEN Response(429, "RateLimited")
    ELSE IF is_auth_error(Caught(o)) THEN Response(500, "AuthFailed")
    ELSE Response(500, "AnalysisFailed")

\* lines 199-202, 209-212, 245-259: the HTTPException after the retry
TerminalError(o) ==
    IF Handler(o) = "ValueError" THEN Response(500, "AnalysisFailed")
    ELSE IF is_auth_error(Caught(o)) THEN Response(500, "AuthFailed")
    ELSE IF is_rate_limit(Caught(o)) THEN Response(429, "RateLimited")
    ELSE Response(500, "AnalysisFailed")


(***************************************************************************)
(* Session cache: _dataframe_cache, _clean_expired_cache and               *)
(* _get_dataframe_from_cache.  Time is in seconds.                         *)
(***************************************************************************)
Hour == 3600            \* timedelta(hours=1)
MaxEarly == 1           \* the clock is watched from 0 to MaxEarly and
MaxLate == 1            \* from one second before the hour to MaxLate after it
MaxWait == 6            \* the clock of one suggestion call stops here
MaxSessions == 2        \* uploads that reach uuid4()

SIDs == 1..MaxSessions
Reqs == {"r1", "r2"}
\* the instants the server is watched at, and those one suggestion call is
Instants == (0..MaxEarly) \cup ((Hour - 1)..(Hour + MaxLate))
WaitInstants == 0..MaxWait
\* how far the clock moves between the two datetime.now() of one put
ClockSkew == {0, 1}

Entry(df, filename, created_at, expires_at) ==
    [dataframe |-> df, filename |-> filename,
     created_at |-> created_at, expires_at |-> expires_at]

\* lines 708-713: the first datetime.now() reads t1, the second t2
Put(c, session_id, df, filename, t1, t2) ==
    [k \in DOMAIN c \cup {session_id} |->
        IF k = session_id THEN Entry(df, filename, t1, t2 + Hour) ELSE c[k]]

\* a sweep that also removes the entries that expire at this very instant
CleanExpiredCache_Inclusive(c, t) ==
    LET expired_keys == { k \in DOMAIN c : c[k].expires_at <= t }
    IN  [k \in DOMAIN c \ expired_keys |-> c[k]]

\* lines 262-270
CleanExpiredCache(c, t) ==
    LET expired_keys == { k \in DOMAIN c : c[k].expires_at < t }
    IN  [k \in DOMAIN c \ expired_keys |-> c[k]]

NoTable == DataFrame(0, <<>>)

\* a lookup that renews the entry's expiry (sliding expiration)
GetDataframeFromCache_Sliding(c, session_id, t) ==
    IF session_id \notin DOMAIN c
    THEN [status |-> 404, kind |-> "NotFound", df |-> NoTable, cache |-> c]
    ELSE IF c[session_id].expires_at < t
    THEN [status |-> 404, kind |-> "Expired", df |-> NoTable,
          cache |-> [k \in DOMAIN c \ {session_id} |-> c[k]]]
    ELSE [status |-> 200, kind |-> "", df |-> c[session_id].dataframe,
          cache |-> [c EXCEPT ![session_id].expires_at = t + Hour]]

\* lines 273-291; cache is the dictionary afterwards
GetDataframeFromCache(c, session_id, t) ==
    IF session_id \notin DOMAIN c
    THEN [status |-> 404, kind |-> "NotFound", df |-> NoTable, cache |-> c]
    ELSE IF c[session_id].expires_at < t
    THEN [status |-> 404, kind |-> "Expired", df |-> NoTable,
          cache |-> [k \in DOMAIN c \ {session_id} |-> c[k]]]
    ELSE [status |-> 200, kind |-> "", df |-> c[session_id].dataframe, cache |-> c]

(***************************************************************************)
(* Chart-data endpoint: get_chart_data up to the validation of the         *)
(* request.  parameters maps role names to column names.                   *)
(***************************************************************************)
ChartTypes == {"bar", "line", "pie", "scatter", "histogram", "box", "heatmap", "area"}
Roles == {"x_axis", "y_axis", "labels", "values", "column", "rows", "columns"}

\* parameters gives every role a column name, or Absent for a key the
\* request does not have
Absent == "<absent>"
NoParameters == [role \in Roles |-> Absent]

\* parameters.get(role)
Get(parameters, role) == parameters[role]

\* not parameters.get(role): None and "" are falsy
Falsy(name) == name \in {Absent, ""}

\* the roles each branch of get_chart_data reads
RolesRead(chart_type) ==
    CASE chart_type \in {"bar", "line", "scatter", "area", "box"} -> <<"x_axis", "y_axis">>
      [] chart_type = "pie" -> <<"labels", "values">>
      [] chart_type = "histogram" -> <<"column">>
      [] chart_type = "heatmap" -> <<"rows", "columns", "values">>
      [] OTHER -> <<>>

\* the role whose column must be numeric, "" when the branch asks for none
NumericRole(chart_type) ==
    CASE chart_type = "histogram" -> "column"
      [] chart_type = "box" -> "y_axis"
      [] chart_type = "heatmap" -> "values"
      [] OTHER -> ""

\* a validation that forgets to look the columns up in df.columns
Validate_NoColumnCheck(df, chart_type, parameters) ==
    LET roles == RolesRead(chart_type)
    IN  IF chart_type \notin ChartTypes
        THEN Response(400, "InvalidChartType")
        ELSE IF \E i \in DOMAIN roles : Falsy(Get(parameters, roles[i]))
        THEN Response(400, "InvalidParameters")
        ELSE Response(200, "")

\* lines 316-321 and, per branch, the checks before the aggregation:
\* 331-341, 370-380, 397-421, 441-457, 495-511
Validate(df, chart_type, parameters) ==
    LET roles == RolesRead(chart_type)
        num == NumericRole(chart_type)
    IN  IF chart_type \notin ChartTypes
        THEN Response(400, "InvalidChartType")
        ELSE IF \E i \in DOMAIN roles : Falsy(Get(parameters, roles[i]))
        THEN Response(400, "InvalidParameters")
        ELSE IF \E i \in DOMAIN roles : ~HasColumn(df, Get(parameters, roles[i]))
        THEN Response(400, "InvalidParameters")
        ELSE IF num # "" /\ ~IsNumericDtype(ColumnOf(df, Get(parameters, num)))
        THEN Response(400, "InvalidColumnType")
        ELSE IF /\ chart_type = "histogram"
                /\ \A i \in DOMAIN ColumnOf(df, Get(parameters, "column")).cells :
                        IsNa(ColumnOf(df, Get(parameters, "column")).cells[i])
        THEN Response(400, "InvalidParameters")
        ELSE Response(200, "")


(***************************************************************************)
(* Chart aggregation: the payload each branch of get_chart_data builds     *)
(* once the request has passed its checks.  A payload has every field;     *)
(* the fields a chart type does not fill are empty.                        *)
(***************************************************************************)
NoData ==
    [labels |-> <<>>, values |-> <<>>, bins |-> <<>>, counts |-> <<>>,
     data |-> <<>>, rows |-> <<>>, columns |-> <<>>, raises |-> FALSE]

\* an exception other than HTTPException left the branch (lines 542-546)
Raised == [NoData EXCEPT !.raises = TRUE]

\* s < t on Python strings: the characters of the tables' texts compare in
\* code-point order
RECURSIVE TextLess(_, _)
TextLess(s, t) ==
    LET CodeOrder ==
            <<" ", "$", ",", "-", ".", "/", "0", "1", "2", "3", "4", "5", "6", "7", "8",
              "9", "A", "N", "a", "b", "c", "f", "i", "n", "u", "x", "y", "z">>
        Ord(c) == CHOOSE i \in DOMAIN CodeOrder : CodeOrder[i] = c
    IN  IF t = <<>> THEN FALSE
        ELSE IF s = <<>> THEN TRUE
        ELSE IF Head(s) = Head(t) THEN TextLess(Tail(s), Tail(t))
        ELSE Ord(Head(s)) < Ord(Head(t))

\* the keys in the order groupby sorts the keys of one column in
RECURSIVE SortedKeys(_)
SortedKeys(S) ==
    IF S = {} THEN <<>>
    ELSE LET KeyLess(a, b) == IF a.k = "str" THEN TextLess(a.s, b.s) ELSE a.n < b.n
             m == CHOOSE m \in S : \A o \in S \ {m} : KeyLess(m, o)
         IN  <<m>> \o SortedKeys(S \ {m})

\* df[x_axis].duplicated().any(): missing values are duplicates of each other
Duplicated(col) ==
    \E i, j \in DOMAIN col.cells :
        /\ i < j
        /\ \/ IsNa(col.cells[i]) /\ IsNa(col.cells[j])
           \/ col.cells[i] = col.cells[j]

\* the keys of df.groupby(col): the distinct values that are not missing
\* (dropna=True), sorted (sort=True)
GroupKeys(col) ==
    SortedKeys({ col.cells[i] : i \in { j \in DOMAIN col.cells : ~IsNa(col.cells[j]) } })

\* the rows of one group
RowsOf(col, key) == { i \in DOMAIN col.cells : col.cells[i] = key }

\* the sum of the cells at rows, NaN skipped
RECURSIVE SumCells(_, _)
SumCells(cells, rows) ==
    IF rows = {} THEN 0
    ELSE LET i == CHOOSE i \in rows : TRUE
         IN  (IF IsNa(cells[i]) THEN 0 ELSE cells[i].n) + SumCells(cells, rows \ {i})

\* .sum() of one group of a numeric column, after tolist()
GroupSum(col, rows) ==
    IF col.dtype = "int64" THEN PyInt(SumCells(col.cells, rows))
    ELSE Float(SumCells(col.cells, rows))

\* df.groupby(k)[v].sum().reset_index() when v is numeric, else
\* df.groupby(k).size().reset_index(name=v); reset_index raises ValueError
\* when the value column has the name of the key column
Grouped(df, k, v) ==
    LET kcol == ColumnOf(df, k)
        vcol == ColumnOf(df, v)
        keys == GroupKeys(kcol)
    IN  IF k = v THEN Raised
        ELSE [NoData EXCEPT
                !.labels = keys,
                !.values = [g \in DOMAIN keys |->
                              IF IsNumericDtype(vcol)
                              THEN GroupSum(vcol, RowsOf(kcol, keys[g]))
                              ELSE PyInt(Cardinality(RowsOf(kcol, keys[g])))]]

\* .fillna("").astype(str).tolist()
LabelTexts(cells) ==
    [i \in DOMAIN cells |-> IF IsNa(cells[i]) THEN Str(<<>>) ELSE Str(AsStr(cells[i]))]

\* .fillna(0).tolist()
FillZero(col) ==
    [i \in DOMAIN col.cells |->
        IF IsNa(col.cells[i])
        THEN (IF col.dtype = "float64" THEN Float(0) ELSE PyInt(0))
        ELSE Box(col.cells[i])]

\* lines 343-363: bar, line, scatter and area
AggregateXY(df, x_axis, y_axis) ==
    IF Duplicated(ColumnOf(df, x_axis))
    THEN LET aggregated == Grouped(df, x_axis, y_axis)
         IN  IF aggregated.raises THEN Raised
             ELSE [aggregated EXCEPT
                     !.labels = [g \in DOMAIN aggregated.labels |-> Box(aggregated.labels[g])]]
    ELSE [NoData EXCEPT
            !.labels = LabelTexts(ColumnOf(df, x_axis).cells),
            !.values = FillZero(ColumnOf(df, y_axis))]

\* lines 382-391: pie
AggregatePie(df, labels_col, values_col) ==
    LET aggregated == Grouped(df, labels_col, values_col)
    IN  IF aggregated.raises THEN Raised
        ELSE [aggregated EXCEPT !.labels = LabelTexts(aggregated.labels)]

\* a numeric cell in hundredths
Hund(c) == IF c.k = "float" THEN c.n ELSE 100 * c.n

\* the positions of the cells that .dropna() keeps
NotNaRows(cells) == { i \in DOMAIN cells : ~IsNa(cells[i]) }

MinOf(S) == CHOOSE m \in S : \A o \in S : m <= o
MaxOf(S) == CHOOSE m \in S : \A o \in S : m >= o

MaxBins == 30       \* min(30, ...)

\* a bin count rounded up where line 424 truncates
NBins_Ceil(n) ==
    LET SturgesSteps == <<1, 2, 4, 8, 16, 32, 64, 128>>
        Sturges == Cardinality({ j \in DOMAIN SturgesSteps : SturgesSteps[j] < n }) + 2
    IN  IF Sturges < MaxBins THEN Sturges ELSE MaxBins

\* line 424: min(30, int(1 + 3.322 * np.log10(n))), for 1 <= n < 256.
\* 3.322 * log10(2^j) = 1.0000217 * j and 3.322 * log10(2^j - 1) < j, so
\* int(1 + 3.322 * np.log10(n)) steps up by one at each power of two.
NBins(n) ==
    LET SturgesSteps == <<1, 2, 4, 8, 16, 32, 64, 128>>
        Sturges == Cardinality({ j \in DOMAIN SturgesSteps : SturgesSteps[j] <= n })
    IN  IF Sturges < MaxBins THEN Sturges ELSE MaxBins

\* lines 416-434 past the length check: np.histogram over n_bins bins of
\* equal width from the least to the greatest value (half a unit either side
\* of a single value), the last bin closed on the right.  Values and edges
\* are in hundredths; a bin center is the fraction num / den of a hundredth.
AggregateHistogram(df, column) ==
    LET cells == ColumnOf(df, column).cells
        hist_data == NotNaRows(cells)
        n_bins == NBins(Cardinality(hist_data))
        least == MinOf({ Hund(cells[i]) : i \in hist_data })
        greatest == MaxOf({ Hund(cells[i]) : i \in hist_data })
        first_edge == IF least = greatest THEN least - 50 ELSE least
        last_edge == IF least = greatest THEN greatest + 50 ELSE greatest
        BinOf(v) == LET b == ((v - first_edge) * n_bins) \div (last_edge - first_edge)
                    IN  IF b >= n_bins THEN n_bins ELSE b + 1
    IN  [NoData EXCEPT
           !.bins = [b \in 1..n_bins |->
                       [num |-> 2 * n_bins * first_edge + (2 * b - 1) * (last_edge - first_edge),
                        den |-> 2 * n_bins]],
           !.counts = [b \in 1..n_bins |->
                         PyInt(Cardinality({ i \in hist_data : BinOf(Hund(cells[i])) = b }))]]

\* a numeric cell in eight-hundredths, the unit of the box statistics
Fine(c) == 8 * Hund(c)

\* the values at rows in ascending order
RECURSIVE SortedFine(_, _)
SortedFine(cells, rows) ==
    IF rows = {} THEN <<>>
    ELSE LET i == CHOOSE i \in rows : \A o \in rows : Fine(cells[i]) <= Fine(cells[o])
         IN  <<Fine(cells[i])>> \o SortedFine(cells, rows \ {i})

\* Series.quantile with interpolation='lower' in place of 'linear'
Quantile_Lower(sorted, quarters) ==
    sorted[((Len(sorted) - 1) * quarters) \div 4 + 1]

\* Series.quantile(quarters / 4), linear interpolation between the two
\* nearest order statistics
Quantile(sorted, quarters) ==
    LET pos == (Len(sorted) - 1) * quarters
        lo == pos \div 4 + 1
        hi == IF pos % 4 = 0 THEN lo ELSE lo + 1
    IN  sorted[lo] + ((pos % 4) * (sorted[hi] - sorted[lo])) \div 4

\* df[x_axis].dropna().unique(): the values in order of first appearance
RECURSIVE Unique(_, _)
Unique(cells, i) ==
    IF i > Len(cells) THEN <<>>
    ELSE (IF ~IsNa(cells[i]) /\ \A j \in 1..(i - 1) : cells[j] # cells[i]
          THEN <<cells[i]>> ELSE <<>>) \o Unique(cells, i + 1)

\* lines 462-481: the record of one category; <<>> when it has no value
BoxRecord(df, x_axis, y_axis, category) ==
    LET ycells == ColumnOf(df, y_axis).cells
        rows == RowsOf(ColumnOf(df, x_axis), category) \cap NotNaRows(ycells)
        category_data == SortedFine(ycells, rows)
        q1 == Quantile(category_data, 1)
        q2 == Quantile(category_data, 2)
        q3 == Quantile(category_data, 3)
        iqr == q3 - q1
        least == category_data[1]
        greatest == category_data[Len(category_data)]
        low == q1 - (3 * iqr) \div 2
        high == q3 + (3 * iqr) \div 2
        lower_whisker == IF least > low THEN least ELSE low
        upper_whisker == IF greatest < high THEN greatest ELSE high
    IN  IF rows = {} THEN <<>>
        ELSE << [category |-> Str(AsStr(category)),
                 q1 |-> q1, median |-> q2, q3 |-> q3,
                 min |-> least, max |-> greatest,
                 lower_whisker |-> lower_whisker, upper_whisker |-> upper_whisker,
                 outliers |-> [i \in DOMAIN Pick(ycells, { r \in rows :
                                    \/ Fine(ycells[r]) < lower_whisker
                                    \/ Fine(ycells[r]) > upper_whisker }, 1) |->
                                Box(Pick(ycells, { r \in rows :
                                    \/ Fine(ycells[r]) < lower_whisker
                                    \/ Fine(ycells[r]) > upper_whisker }, 1)[i])]] >>

\* lines 459-487: box, the records of the categories in order
AggregateBox(df, x_axis, y_axis) ==
    LET RECURSIVE BoxRecords(_)
        BoxRecords(categories) ==
            IF categories = <<>> THEN <<>>
            ELSE BoxRecord(df, x_axis, y_axis, Head(categories)) \o
                 BoxRecords(Tail(categories))
    IN  [NoData EXCEPT !.data = BoxRecords(Unique(ColumnOf(df, x_axis).cells, 1))]

\* lines 513-526: heatmap.  pivot_table groups the rows whose two keys are
\* present, sums the values of each group and fills the pairs that have no
\* row with 0; it raises when a column is named for two roles.
AggregateHeatmap(df, rows_col, columns_col, values_col) ==
    LET rcol == ColumnOf(df, rows_col)
        ccol == ColumnOf(df, columns_col)
        vcol == ColumnOf(df, values_col)
        both == NotNaRows(rcol.cells) \cap NotNaRows(ccol.cells)
        rkeys == SortedKeys({ rcol.cells[i] : i \in both })
        ckeys == SortedKeys({ ccol.cells[i] : i \in both })
    IN  IF Cardinality({rows_col, columns_col, values_col}) < 3 THEN Raised
        ELSE [NoData EXCEPT
                !.rows = [i \in DOMAIN rkeys |-> Box(rkeys[i])],
                !.columns = [j \in DOMAIN ckeys |-> Box(ckeys[j])],
                !.values = [i \in DOMAIN rkeys |-> [j \in DOMAIN ckeys |->
                              GroupSum(vcol, { r \in both : /\ rcol.cells[r] = rkeys[i]
                                                            /\ ccol.cells[r] = ckeys[j] })]]]

\* lines 326-526: the payload of a request that passed the checks
Aggregate(df, chart_type, parameters) ==
    IF \E i \in DOMAIN RolesRead(chart_type) :
          ~HasColumn(df, Get(parameters, RolesRead(chart_type)[i]))
    THEN Raised     \* df[column] raises KeyError
    ELSE
        CASE chart_type \in {"bar", "line", "scatter", "area"} ->
                AggregateXY(df, Get(parameters, "x_axis"), Get(parameters, "y_axis"))
          [] chart_type = "pie" ->
                AggregatePie(df, Get(parameters, "labels"), Get(parameters, "values"))
          [] chart_type = "histogram" -> AggregateHistogram(df, Get(parameters, "column"))
          [] chart_type = "box" ->
                AggregateBox(df, Get(parameters, "x_axis"), Get(parameters, "y_axis"))
          [] chart_type = "heatmap" ->
                AggregateHeatmap(df, Get(parameters, "rows"), Get(parameters, "columns"),
                                 Get(parameters, "values"))


(***************************************************************************)
(* Upload endpoint: upload_file.                                           *)
(***************************************************************************)
\* position of the last "." of s, 0 when there is none
LastDotAt(s) == IF \E i \in DOMAIN s : s[i] = "."
                THEN CHOOSE i \in DOMAIN s : s[i] = "." /\ \A j \in (i + 1)..Len(s) : s[j] # "."
                ELSE 0

\* lines 563-566; <<>> stands for None (and for a missing filename)
FileExtension(filename) ==
    IF filename = <<>> THEN <<>>
    ELSE <<".">> \o Lower(SubSeq(filename, LastDotAt(filename) + 1, Len(filename)))

CsvExt == <<".", "c", "s", "v">>
XlsxExt == <<".", "x", "l", "s", "x">>
allowed_extensions == {CsvExt, XlsxExt}

\* what pd.read_csv / pd.read_excel made of the bytes
Loaded(kind, df) == [kind |-> kind, df |-> df]

\* lines 607-640: the cleaning steps up to the NaN -> None pass
CleanUpToNone(df) == NanToNone(ReplaceInf(CoerceCurrency(DropAllNullRows(df))))

\* lines 607-665: all the cleaning steps
Clean(df) == CleanValues(CleanUpToNone(df))

Prepared(status, kind, df, rows) == [status |-> status, kind |-> kind, df |-> df, rows |-> rows]

\* lines 574-701 with the except clauses of 772-794: what the handler has
\* when it reaches the put (status 0), or the error it raises before;
\* rows is the row count once the all-null rows are dropped (0 for a file
\* that holds nothing, -1 for one that cannot be read)
Prepare(loaded, file_extension) ==
    IF loaded.kind = "EmptyDataError" THEN Prepared(400, "EmptyInput", NoTable, 0)
    ELSE IF loaded.kind = "ParserError" THEN Prepared(400, "ParseError", NoTable, -1)
    ELSE IF loaded.kind # "table" THEN Prepared(500, "ServerError", NoTable, -1)
    ELSE
        LET df0 == IF file_extension = XlsxExt THEN ReplaceInf(loaded.df) ELSE loaded.df
        IN  IF IsEmpty(df0) THEN Prepared(400, "EmptyInput", NoTable, df0.n)
            ELSE IF CleanUpToNone(df0).n = 0
                 \* df.iloc[0] at line 644 raises IndexError
                 THEN Prepared(500, "ServerError", NoTable, 0)
            ELSE Prepared(0, "", Clean(df0), Clean(df0).n)

\* the upload requests: pc is where the coroutine stands
\*   "idle"      no request
\*   "reading"   awaiting file.read()
\*   "analyze"   about to call the summarizer
\*   "sleeping"  awaiting asyncio.sleep before the retry
\*   "done"      the response is sent
IdleReq ==
    [pc |-> "idle", filename |-> <<>>, sid |-> 0, rows |-> -1,
     retry_count |-> 0, calls |-> 0, wake |-> 0, out |-> NoOutcome,
     status |-> 0, kind |-> "", result |-> <<>>]

Done(q, status, kind) == [q EXCEPT !.pc = "done", !.status = status, !.kind = kind]

NoChart ==
    [op |-> "none", sid |-> 0, chart_type |-> "", parameters |-> NoParameters,
     status |-> 0, kind |-> "", t |-> 0, data |-> NoData]

\* a new request takes the first free slot
FirstIdle == IF req["r1"].pc = "idle" THEN "r1" ELSE "r2"

\* lines 561-576: the extension check, then await file.read()
UploadReceive(r, filename) ==
    /\ req[r].pc = "idle"
    /\ r = FirstIdle
    /\ Cardinality(used) < MaxSessions
    /\ req' = [req EXCEPT ![r] =
                 IF FileExtension(filename) \notin allowed_extensions
                 THEN Done([IdleReq EXCEPT !.filename = filename], 400, "UnsupportedFormat")
                 ELSE [IdleReq EXCEPT !.pc = "reading", !.filename = filename]]
    /\ last' = NoChart
    /\ UNCHANGED <<now, cache, used, apiKey, arg, out1, out2, step, tasks, running>>

\* lines 577-716: load, clean, profile, put and sweep, with no await between
UploadLoadAndCache(r, loaded, skew) ==
    /\ req[r].pc = "reading"
    /\ Cardinality(used) < MaxSessions
    /\ LET p == Prepare(loaded, FileExtension(req[r].filename))
           session_id == Cardinality(used) + 1
       IN  IF p.status # 0
           THEN /\ req' = [req EXCEPT ![r] = Done([@ EXCEPT !.rows = p.rows], p.status, p.kind)]
                /\ UNCHANGED <<now, cache, used>>
           ELSE /\ req' = [req EXCEPT ![r] =
                            [@ EXCEPT !.pc = "analyze", !.sid = session_id, !.rows = p.rows]]
                /\ cache' = CleanExpiredCache(
                                Put(cache, session_id, p.df, req[r].filename, now, now + skew),
                                now + skew)
                /\ used' = used \cup {session_id}
                /\ now' = now + skew
    /\ last' = NoChart
    /\ UNCHANGED <<apiKey, arg, out1, out2, step, tasks, running>>

\* lines 37-259: one call of analyze_dataframe_with_ai up to its return,
\* its raise, or its await asyncio.sleep
AnalyzeAttempt(r, o) ==
    /\ req[r].pc = "analyze"
    /\ req' = [req EXCEPT ![r] =
                 IF apiKey = ""
                 THEN Done(@, 500, "MissingApiKey")
                 ELSE LET q == [@ EXCEPT !.calls = @ + 1, !.out = o]
                      IN  IF Validates(o)
                          THEN [Done(q, 200, "") EXCEPT !.result = o.items]
                          ELSE IF MayRetry(q.retry_count)
                          THEN [q EXCEPT !.pc = "sleeping",
                                         !.wake = now + RetryDelay(o),
                                         !.retry_count = @ + 1]
                          ELSE Done(q, TerminalError(o).status, TerminalError(o).kind)]
    /\ last' = NoChart
    /\ UNCHANGED <<now, cache, used, apiKey, arg, out1, out2, step, tasks, running>>

\* asyncio.sleep returns: the recursive call starts
Wake(r) ==
    /\ req[r].pc = "sleeping"
    /\ now >= req[r].wake
    /\ req' = [req EXCEPT ![r].pc = "analyze", ![r].wake = 0, ![r].out = NoOutcome]
    /\ last' = NoChart
    /\ UNCHANGED <<now, cache, used, apiKey, arg, out1, out2, step, tasks, running>>

\* the response has left; the slot takes the next request
Forget(r) ==
    /\ req[r].pc = "done"
    /\ req' = [req EXCEPT ![r] = IdleReq]
    /\ last' = NoChart
    /\ UNCHANGED <<now, cache, used, apiKey, arg, out1, out2, step, tasks, running>>

\* time passes: the clock reads t next
Tick(t) ==
    /\ t > now
    /\ now' = t
    /\ last' = NoChart
    /\ UNCHANGED <<cache, used, apiKey, req, arg, out1, out2, step, tasks, running>>

\* lines 311-546: one chart-data request, which has no await
ChartData(session_id, chart_type, parameters) ==
    LET got == GetDataframeFromCache(cache, session_id, now)
        checked == IF got.status # 200 THEN Response(got.status, got.kind)
                   ELSE Validate(got.df, chart_type, parameters)
        chart_data == IF checked.status = 200
                      THEN Aggregate(got.df, chart_type, parameters)
                      ELSE NoData
        v == IF chart_data.raises THEN Response(500, "ServerError") ELSE checked
    IN  /\ last.op = "none"
        /\ cache' = got.cache
        /\ last' = [op |-> "chart", sid |-> session_id, chart_type |-> chart_type,
                    parameters |-> parameters, status |-> v.status, kind |-> v.kind,
                    t |-> now, data |-> chart_data]
        /\ UNCHANGED <<now, used, apiKey, req, arg, out1, out2, step, tasks, running>>


\* the chart response has left
Deliver ==
    /\ last.op = "chart"
    /\ last' = NoChart
    /\ UNCHANGED <<now, cache, used, apiKey, req, arg, out1, out2, step, tasks, running>>

(***************************************************************************)
(* The server: uploads and chart requests against one cache.               *)
(***************************************************************************)
T(s) == Str(s)

\* x = [a, a, b], y = [10, 20, 5]
SalesTable ==
    DataFrame(3, << Column("x", "object", << T(<<"a">>), T(<<"a">>), T(<<"b">>) >>),
                    Column("y", "int64", << NpInt(10), NpInt(20), NpInt(5) >>) >>)

\* a file whose only rows are empty: "x,y" and then "," twice
BlankRowsTable ==
    DataFrame(2, << Column("x", "float64", << NaN, NaN >>),
                    Column("y", "float64", << NaN, NaN >>) >>)

\* a file with a header line and no row
HeaderOnlyTable ==
    DataFrame(0, << Column("x", "object", <<>>), Column("y", "object", <<>>) >>)

\* a text column, and a numeric column with a missing cell
GapTable ==
    DataFrame(2, << Column("x", "float64", << Float(150), NaN >>),
                    Column("y", "object", << T(<<"N", "/", "A">>), T(<<"u">>) >>) >>)

Filenames ==
    { <<"a", ".", "c", "s", "v">>, <<"c", ".", "t", "x", "t">>, <<>> }

Loads ==
    { Loaded("EmptyDataError", NoTable), Loaded("ParserError", NoTable),
      Loaded("OtherError", NoTable), Loaded("table", SalesTable),
      Loaded("table", BlankRowsTable), Loaded("table", HeaderOnlyTable) }

Params(pairs) == [role \in Roles |-> IF role \in DOMAIN pairs THEN pairs[role] ELSE Absent]

FewCharts ==
    { <<"bar", Params([x_axis |-> "x", y_axis |-> "y"])>>,
      <<"histogram", Params([column |-> "zz"])>> }

\* the coroutines of the statement-level view of the event loop: two
\* uploads and two chart-data lookups
Uploads == {"u1", "u2"}
Lookups == {"g1", "g2"}

\* keys is the local expired_keys of _clean_expired_cache
IdleTask == [pc |-> "idle", sid |-> 0, keys |-> {}, status |-> 0, kind |-> ""]

NoLoop ==
    /\ tasks = [i \in Uploads \cup Lookups |-> IdleTask]
    /\ running = "none"

NoServer ==
    /\ NoLoop
    /\ now = 0
    /\ cache = <<>>
    /\ used = {}
    /\ apiKey = "sk"
    /\ req = [r \in Reqs |-> IdleReq]
    /\ last = NoChart

NoHarness ==
    /\ NoLoop
    /\ arg = None
    /\ out1 = None
    /\ out2 = None
    /\ step = "off"

Init ==
    /\ now = 0
    /\ cache = <<>>
    /\ used = {}
    /\ apiKey \in {"", "sk"}
    /\ req = [r \in Reqs |-> IdleReq]
    /\ last = NoChart
    /\ NoHarness

Next ==
    \/ \E r \in Reqs, f \in Filenames : UploadReceive(r, f)
    \/ \E r \in Reqs, l \in Loads, d \in ClockSkew : UploadLoadAndCache(r, l, d)
    \/ \E r \in Reqs, o \in FewOutcomes : AnalyzeAttempt(r, o)
    \/ \E r \in Reqs : Wake(r)
    \/ \E r \in Reqs : Forget(r)
    \/ \E t \in Instants : Tick(t)
    \/ \E s \in SIDs, c \in FewCharts : ChartData(s, c[1], c[2])
    \/ Deliver

Spec == Init /\ [][Next]_vars


(***************************************************************************)
(* One suggestion call, against every reply of the summarizer: the upload  *)
(* of SalesTable has just put its session and calls                        *)
(* analyze_dataframe_with_ai.                                              *)
(***************************************************************************)
CsvName == <<"a", ".", "c", "s", "v">>

InitSuggest ==
    /\ now = 0
    /\ cache = CleanExpiredCache(Put(<<>>, 1, Clean(SalesTable), CsvName, 0, 0), 0)
    /\ used = {1}
    /\ apiKey \in {"", "sk"}
    /\ req = [r \in Reqs |->
                IF r = "r1"
                THEN [IdleReq EXCEPT !.pc = "analyze", !.filename = CsvName,
                                     !.sid = 1, !.rows = Clean(SalesTable).n]
                ELSE IdleReq]
    /\ last = NoChart
    /\ NoHarness

NextSuggest ==
    \/ \E o \in Outcomes : AnalyzeAttempt("r1", o)
    \/ Wake("r1")
    \/ \E t \in WaitInstants : Tick(t)

SpecSuggest == InitSuggest /\ [][NextSuggest]_vars

(***************************************************************************)
(* Chart requests of every type and parameters mapping, against a cache    *)
(* that two uploads have filled.                                           *)
(***************************************************************************)
ColumnNamesAsked == {Absent, "", "x", "y", "zz"}
ChartTypesAsked == ChartTypes \cup {"radar"}

\* the parameters that give the roles a chart type reads any of the names
ParametersFor(chart_type) ==
    LET roles == RolesRead(chart_type)
        read == { roles[i] : i \in DOMAIN roles }
    IN  { [role \in Roles |-> IF role \in read THEN f[role] ELSE Absent] :
            f \in [read -> ColumnNamesAsked] }

\* every chart request asked of one session
ChartRequests == UNION { { <<c, p>> : p \in ParametersFor(c) } : c \in ChartTypesAsked }

InitChart ==
    /\ now = 0
    /\ \E d \in ClockSkew :
          cache = CleanExpiredCache(
                      Put(CleanExpiredCache(Put(<<>>, 1, Clean(SalesTable), CsvName, 0, 0), 0),
                          2, Clean(GapTable), CsvName, 0, d),
                      d)
    /\ used = {1, 2}
    /\ apiKey = "sk"
    /\ req = [r \in Reqs |-> IdleReq]
    /\ last = NoChart
    /\ NoHarness

NextChart ==
    \/ \E s \in SIDs \cup {MaxSessions + 1}, c \in ChartRequests : ChartData(s, c[1], c[2])
    \/ Deliver
    \/ \E t \in Instants : Tick(t)

SpecChart == InitChart /\ [][NextChart]_vars

(***************************************************************************)
(* clean_value on every scalar, applied once and again.                    *)
(***************************************************************************)
NormAlphabet == {"n", "a", "o", "e", "N", "A", "x", " "}
NumRange == (-MaxNum)..MaxNum

Scalars ==
    {None, NaN, PosInf, NegInf} \cup
    { Float(50 * n) : n \in NumRange } \cup
    { NpInt(n) : n \in NumRange } \cup
    { PyInt(n) : n \in NumRange } \cup
    { Str(t) : t \in SeqsUpTo(NormAlphabet, MaxStrLen) }

InitNorm ==
    /\ NoServer
    /\ arg \in Scalars
    /\ out1 = None
    /\ out2 = None
    /\ step = "in"

Normalize ==
    /\ step = "in"
    /\ out1' = clean_value(arg)
    /\ step' = "once"
    /\ UNCHANGED <<now, cache, used, apiKey, req, last, arg, out2, tasks, running>>

NormalizeAgain ==
    /\ step = "once"
    /\ out2' = clean_value(out1)
    /\ step' = "twice"
    /\ UNCHANGED <<now, cache, used, apiKey, req, last, arg, out1, tasks, running>>

NextNorm == Normalize \/ NormalizeAgain

SpecNorm == InitNorm /\ [][NextNorm]_vars

(***************************************************************************)
(* The cleaning steps of upload_file, one at a time, on every table of     *)
(* two columns and at most MaxRows rows.                                   *)
(***************************************************************************)
MaxRows == 2

FloatCells == {NaN, PosInf, Float(150)}
IntCells == {NpInt(7)}
TextCells == {NaN, T(<<"$", "1", ",", "2", "0", "0">>), T(<<"N", "/", "A">>),
              T(<<"i", "n", "f">>), T(<<" ", "1", "2", ".", "5">>)}

RECURSIVE SeqsOfLen(_, _)
SeqsOfLen(S, n) ==
    IF n = 0 THEN { <<>> } ELSE { Append(q, e) : q \in SeqsOfLen(S, n - 1), e \in S }

ColumnsOfLen(name, n) ==
    { Column(name, "float64", cs) : cs \in SeqsOfLen(FloatCells, n) } \cup
    { Column(name, "int64", cs) : cs \in SeqsOfLen(IntCells, n) } \cup
    { Column(name, "object", cs) : cs \in SeqsOfLen(TextCells, n) }

\* the tables of n rows and two columns, x and y
RawTables(n) ==
    { DataFrame(n, <<cx, cy>>) : cx \in ColumnsOfLen("x", n), cy \in ColumnsOfLen("y", n) }

\* "$1,234.50" in every row beside a column mixing "$1,200" and "N/A"
PriceTable ==
    DataFrame(2, << Column("x", "object",
                           << T(<<"$", "1", ",", "2", "3", "4", ".", "5", "0">>),
                              T(<<"$", "1", ",", "2", "3", "4", ".", "5", "0">>) >>),
                    Column("y", "object",
                           << T(<<"$", "1", ",", "2", "0", "0">>), T(<<"N", "/", "A">>) >>) >>)

\* arg is the table as loaded, out1 the table after the steps taken so far
InitClean ==
    /\ NoServer
    /\ \E n \in 0..MaxRows : arg \in RawTables(n) \cup {PriceTable}
    /\ out1 = arg
    /\ out2 = None
    /\ step \in {"csv", "xlsx"}

\* lines 591-601
CheckLoaded ==
    /\ step \in {"csv", "xlsx"}
    /\ out1' = IF step = "xlsx" THEN ReplaceInf(out1) ELSE out1
    /\ step' = IF IsEmpty(out1) THEN "EmptyInput" ELSE "loaded"
    /\ UNCHANGED <<now, cache, used, apiKey, req, last, arg, out2, tasks, running>>

\* line 608
StepDropRows ==
    /\ step = "loaded"
    /\ out1' = DropAllNullRows(out1)
    /\ step' = "dropped"
    /\ UNCHANGED <<now, cache, used, apiKey, req, last, arg, out2, tasks, running>>

\* lines 611-624
StepCoerce ==
    /\ step = "dropped"
    /\ out1' = CoerceCurrency(out1)
    /\ step' = "coerced"
    /\ UNCHANGED <<now, cache, used, apiKey, req, last, arg, out2, tasks, running>>

\* line 631
StepReplaceInf ==
    /\ step = "coerced"
    /\ out1' = ReplaceInf(out1)
    /\ step' = "finite"
    /\ UNCHANGED <<now, cache, used, apiKey, req, last, arg, out2, tasks, running>>

\* lines 639-644
StepNanToNone ==
    /\ step = "finite"
    /\ out1' = NanToNone(out1)
    /\ step' = IF out1.n = 0 THEN "ServerError" ELSE "none"
    /\ UNCHANGED <<now, cache, used, apiKey, req, last, arg, out2, tasks, running>>

\* lines 664-665
StepCleanValues ==
    /\ step = "none"
    /\ out1' = CleanValues(out1)
    /\ step' = "clean"
    /\ UNCHANGED <<now, cache, used, apiKey, req, last, arg, out2, tasks, running>>

NextClean ==
    \/ CheckLoaded
    \/ StepDropRows
    \/ StepCoerce
    \/ StepReplaceInf
    \/ StepNanToNone
    \/ StepCleanValues

SpecClean == InitClean /\ [][NextClean]_vars


(***************************************************************************)
(* Chart aggregation on every cached table of two columns, x and y, of at  *)
(* most MaxChartRows rows, and on the tables of the documented examples:   *)
(* one chart request of each type is asked of the session.                 *)
(***************************************************************************)
MaxChartRows == 3

\* the tables of n rows the cleaning steps leave as they are
CachedTables(n) ==
    LET KeyTextCells == {T(<<"a">>), T(<<"b">>), None}
        KeyFloatCells == {Float(150), NaN}
        ValueIntCells == {NpInt(5), NpInt(10)}
        ValueFloatCells == {Float(150), Float(275), NaN}
        ValueTextCells == {T(<<"u">>), None}
    IN
    { t \in { DataFrame(n, <<cx, cy>>) :
                cx \in { Column("x", "object", cs) : cs \in SeqsOfLen(KeyTextCells, n) } \cup
                       { Column("x", "float64", cs) : cs \in SeqsOfLen(KeyFloatCells, n) },
                cy \in { Column("y", "int64", cs) : cs \in SeqsOfLen(ValueIntCells, n) } \cup
                       { Column("y", "float64", cs) : cs \in SeqsOfLen(ValueFloatCells, n) } \cup
                       { Column("y", "object", cs) : cs \in SeqsOfLen(ValueTextCells, n) } } :
        Clean(t) = t }

\* one category, y = [1, 2, 3, 4, 5, 100]
BoxTable ==
    DataFrame(6, << Column("x", "object", [i \in 1..6 |-> T(<<"c">>)]),
                    Column("y", "int64",
                           << NpInt(1), NpInt(2), NpInt(3), NpInt(4), NpInt(5), NpInt(100) >>) >>)

\* one hundred values, 1 to 100
HundredTable ==
    DataFrame(100, << Column("x", "object", [i \in 1..100 |-> T(<<"c">>)]),
                      Column("y", "int64", [i \in 1..100 |-> NpInt(i)]) >>)

\* a numeric column without a value: get_chart_data takes the table as the
\* cache holds it, whatever stored it
NoValueTable ==
    DataFrame(2, << Column("x", "object", << T(<<"a">>), T(<<"b">>) >>),
                    Column("y", "float64", << NaN, NaN >>) >>)

\* three columns, for the pivot table
PivotTable ==
    DataFrame(3, << Column("x", "object", << T(<<"a">>), T(<<"a">>), T(<<"b">>) >>),
                    Column("y", "int64", << NpInt(10), NpInt(20), NpInt(5) >>),
                    Column("z", "object", << T(<<"u">>), T(<<"u">>), T(<<"c">>) >>) >>)

\* the request of each chart type: x is the category, y the value
AxisParameters(chart_type) ==
    CASE chart_type \in {"bar", "line", "scatter", "area", "box"} ->
            Params([x_axis |-> "x", y_axis |-> "y"])
      [] chart_type = "pie" -> Params([labels |-> "x", values |-> "y"])
      [] chart_type = "histogram" -> Params([column |-> "y"])
      [] chart_type = "heatmap" -> Params([rows |-> "x", columns |-> "z", values |-> "y"])

InitAggregate ==
    /\ now = 0
    /\ \E n \in 1..MaxChartRows :
         \E t \in CachedTables(n) \cup {SalesTable, BoxTable, HundredTable, NoValueTable, PivotTable} :
            cache = CleanExpiredCache(Put(<<>>, 1, t, CsvName, 0, 0), 0)
    /\ used = {1}
    /\ apiKey = "sk"
    /\ req = [r \in Reqs |-> IdleReq]
    /\ last = NoChart
    /\ NoHarness

\* the table of a hundred rows is asked for its histogram only
NextAggregate ==
    \/ \E c \in ChartTypes :
          /\ cache[1].dataframe = HundredTable => c = "histogram"
          /\ ChartData(1, c, AxisParameters(c))
    \/ Deliver

SpecAggregate == InitAggregate /\ [][NextAggregate]_vars



(***************************************************************************)
(* The event loop, statement by statement.  upload_file and                *)
(* get_chart_data are coroutines of one asyncio loop: a coroutine that     *)
(* holds the loop runs until it awaits or returns, and only then does      *)
(* another one run.  Each action below is one statement of the cache       *)
(* operations; the clock runs whoever holds the loop.                      *)
(***************************************************************************)

\* every position is a point where the loop may switch coroutines, as it
\* would be for handlers run on preemptive threads
Yields_Everywhere(pc) == pc = pc

\* the positions at which a coroutine does not hold the loop: not started,
\* suspended in await file.read() (line 576) or in await asyncio.sleep
\* (lines 195, 206, 239, 241), or returned
Yields(pc) == pc \in {"idle", "reading", "sleeping", "done"}

\* the coroutine i may execute its next statement
Holds(i) == running \in {"none", i}

\* the tasks and the holder of the loop after i has moved to the task q
Moved(i, q) ==
    /\ tasks' = [tasks EXCEPT ![i] = q]
    /\ running' = IF Yields(q.pc) THEN "none" ELSE i

Ended(q, status, kind) == [q EXCEPT !.pc = "done", !.status = status, !.kind = kind]

\* lines 561-576: the request arrives and awaits file.read()
LoopUploadStart(i) ==
    /\ tasks[i].pc = "idle" /\ Holds(i)
    /\ Cardinality(used) < MaxSessions
    /\ Moved(i, [IdleTask EXCEPT !.pc = "reading"])
    /\ UNCHANGED <<now, cache, used, apiKey, req, last, arg, out1, out2, step>>

\* lines 577-713: the file is read; load, clean, uuid4() and the put
LoopUploadPut(i, skew) ==
    /\ tasks[i].pc = "reading" /\ Holds(i)
    /\ Cardinality(used) < MaxSessions
    /\ LET session_id == Cardinality(used) + 1
       IN  /\ cache' = Put(cache, session_id, SalesTable, CsvName, now, now + skew)
           /\ used' = used \cup {session_id}
           /\ Moved(i, [tasks[i] EXCEPT !.pc = "sweep", !.sid = session_id])
    /\ now' = now + skew
    /\ UNCHANGED <<apiKey, req, last, arg, out1, out2, step>>

\* lines 264-268: _clean_expired_cache lists the expired keys
LoopSweepScan(i) ==
    /\ tasks[i].pc = "sweep" /\ Holds(i)
    /\ Moved(i, [tasks[i] EXCEPT !.pc = "sweep_del",
                    !.keys = { k \in DOMAIN cache : cache[k].expires_at < now }])
    /\ UNCHANGED <<now, cache, used, apiKey, req, last, arg, out1, out2, step>>

\* lines 269-270: the listed keys are deleted in order; del raises KeyError
\* at the first one that is gone, which upload_file answers 500 (788-793)
LoopSweepDelete(i) ==
    /\ tasks[i].pc = "sweep_del" /\ Holds(i)
    /\ LET gone == tasks[i].keys \ DOMAIN cache
           deleted == { k \in tasks[i].keys : \A g \in gone : k < g }
       IN  /\ cache' = [k \in DOMAIN cache \ deleted |-> cache[k]]
           /\ Moved(i, IF gone = {} THEN [tasks[i] EXCEPT !.pc = "suggest", !.keys = {}]
                       ELSE Ended([tasks[i] EXCEPT !.keys = {}], 500, "ServerError"))
    /\ UNCHANGED <<now, used, apiKey, req, last, arg, out1, out2, step>>

\* lines 721-771: the suggestion step, which returns or sleeps before its
\* retry; it does not touch the cache
LoopSuggest(i, sleeps) ==
    /\ tasks[i].pc \in {"suggest", "retry"} /\ Holds(i)
    /\ sleeps => tasks[i].pc = "suggest"
    /\ Moved(i, IF sleeps THEN [tasks[i] EXCEPT !.pc = "sleeping"]
                ELSE Ended(tasks[i], 200, ""))
    /\ UNCHANGED <<now, cache, used, apiKey, req, last, arg, out1, out2, step>>

\* asyncio.sleep returns
LoopWake(i) ==
    /\ tasks[i].pc = "sleeping" /\ Holds(i)
    /\ Moved(i, [tasks[i] EXCEPT !.pc = "retry"])
    /\ UNCHANGED <<now, cache, used, apiKey, req, last, arg, out1, out2, step>>

\* line 275: the presence check of _get_dataframe_from_cache
LoopLookupCheck(i, session_id) ==
    /\ tasks[i].pc = "idle" /\ Holds(i)
    /\ Moved(i, IF session_id \notin DOMAIN cache
                THEN Ended([IdleTask EXCEPT !.sid = session_id], 404, "NotFound")
                ELSE [IdleTask EXCEPT !.pc = "read", !.sid = session_id])
    /\ UNCHANGED <<now, cache, used, apiKey, req, last, arg, out1, out2, step>>

\* lines 281-284: cache_entry = _dataframe_cache[session_id], a KeyError
\* when the entry is gone (answered 500 at lines 542-546), and the expiry test
LoopLookupRead(i) ==
    /\ tasks[i].pc = "read" /\ Holds(i)
    /\ Moved(i, IF tasks[i].sid \notin DOMAIN cache
                THEN Ended(tasks[i], 500, "ServerError")
                ELSE IF cache[tasks[i].sid].expires_at < now
                THEN [tasks[i] EXCEPT !.pc = "evict"]
                ELSE Ended(tasks[i], 200, ""))
    /\ UNCHANGED <<now, cache, used, apiKey, req, last, arg, out1, out2, step>>

\* lines 285-289: del _dataframe_cache[session_id], a KeyError when the
\* entry is gone, then 404
LoopLookupEvict(i) ==
    /\ tasks[i].pc = "evict" /\ Holds(i)
    /\ cache' = [k \in DOMAIN cache \ {tasks[i].sid} |-> cache[k]]
    /\ Moved(i, IF tasks[i].sid \notin DOMAIN cache
                THEN Ended(tasks[i], 500, "ServerError")
                ELSE Ended(tasks[i], 404, "Expired"))
    /\ UNCHANGED <<now, used, apiKey, req, last, arg, out1, out2, step>>

\* the response has left
LoopForget(i) ==
    /\ tasks[i].pc = "done" /\ Holds(i)
    /\ Moved(i, IdleTask)
    /\ UNCHANGED <<now, cache, used, apiKey, req, last, arg, out1, out2, step>>

\* the clock moves on; the loop is watched before and after the entries of
\* the first hour have expired
LoopTick(t) ==
    /\ t > now
    /\ now' = t
    /\ UNCHANGED <<cache, used, apiKey, req, last, arg, out1, out2, step, tasks, running>>

NextLoop ==
    \/ \E i \in Uploads : LoopUploadStart(i)
    \/ \E i \in Uploads, d \in ClockSkew : LoopUploadPut(i, d)
    \/ \E i \in Uploads : LoopSweepScan(i)
    \/ \E i \in Uploads : LoopSweepDelete(i)
    \/ \E i \in Uploads, sleeps \in BOOLEAN : LoopSuggest(i, sleeps)
    \/ \E i \in Uploads : LoopWake(i)
    \/ \E i \in Lookups, s \in SIDs : LoopLookupCheck(i, s)
    \/ \E i \in Lookups : LoopLookupRead(i)
    \/ \E i \in Lookups : LoopLookupEvict(i)
    \/ \E i \in Uploads \cup Lookups : LoopForget(i)
    \/ LoopTick(Hour + MaxLate)

\* the server has started, the API key is configured, no request has come
InitFresh == NoServer /\ NoHarness

SpecLoop == InitFresh /\ [][NextLoop]_vars

(***************************************************************************)
(* Uploads of a valid file at instants around the first hour: each puts    *)
(* its session and sweeps the cache, and its suggestion call succeeds.     *)
(***************************************************************************)
NextSweep ==
    \/ \E r \in Reqs : UploadReceive(r, CsvName)
    \/ \E r \in Reqs, d \in ClockSkew : UploadLoadAndCache(r, Loaded("table", SalesTable), d)
    \/ \E r \in Reqs :
          AnalyzeAttempt(r, Outcome("json", NoExc, TRUE, << Viz(TRUE, RequiredKeys, TRUE, "bar") >>))
    \/ \E r \in Reqs : Forget(r)
    \/ \E t \in Instants : Tick(t)

SpecSweep == InitFresh /\ [][NextSweep]_vars

(***************************************************************************)
(* Claims.                                                                 *)
(***************************************************************************)
TheCall == req["r1"]

\* what the summarizer contract calls a valid reply: a non-empty array of
\* objects that have the four keys, whose parameters is an object and whose
\* chart_type is one of the six suggested types
WellFormedViz(viz) ==
    /\ viz.is_dict
    /\ {"title", "chart_type", "parameters", "insight"} \subseteq viz.keys
    /\ viz.parameters_is_dict
    /\ viz.chart_type \in {"bar", "line", "pie", "scatter", "histogram", "area"}

ValidReply(o) ==
    /\ o.kind = "json"
    /\ o.is_list
    /\ Len(o.items) >= 1
    /\ \A i \in 1..Len(o.items) : WellFormedViz(o.items[i])

C1_CallState ==
    /\ TheCall.calls <= 2
    /\ TheCall.pc = "sleeping" => TheCall.calls = 1 /\ ~ValidReply(TheCall.out)
    /\ TheCall.pc = "analyze" /\ TheCall.calls = 1 => TheCall.retry_count = 1
    /\ TheCall.pc = "done" /\ TheCall.calls = 1 =>
          /\ ValidReply(TheCall.out)
          /\ TheCall.status = 200
          /\ TheCall.result = TheCall.out.items
    /\ TheCall.pc = "done" /\ TheCall.calls = 2 =>
          IF ValidReply(TheCall.out)
          THEN TheCall.status = 200 /\ TheCall.result = TheCall.out.items
          ELSE TheCall.status \in {429, 500}

C1_CallStep ==
    /\ TheCall.pc = "done" => req' = req
    /\ TheCall'.calls # TheCall.calls =>
          /\ TheCall'.calls = TheCall.calls + 1
          /\ TheCall.calls = 1 => TheCall.retry_count = 1 /\ TheCall.wake = 0
    /\ TheCall.pc = "sleeping" /\ req' # req =>
          TheCall'.pc = "analyze" /\ TheCall'.calls = 1 /\ now >= TheCall.wake

\* C1: one suggestion call makes at most two summarizer calls: a failed
\* first attempt never ends the call, it waits and is retried once; the
\* retry's valid list is the result, its failure is a terminal error and
\* nothing follows it; a first attempt that succeeds ends the call.
C1_AtMostOneRetry == [](C1_CallState) /\ [][C1_CallStep]_vars

C1_Witness ==
    /\ TheCall.pc = "done"
    /\ TheCall.calls = 2
    /\ TheCall.status = 200
    /\ Len(TheCall.result) = 2

\* the retry failed and the call ended in an error
RetryFailed == TheCall.pc = "done" /\ TheCall.calls = 2 /\ TheCall.status # 200

\* the failure the classification was applied to
Classified == Handler(TheCall.out) = "Exception"

\* C2 as claimed: after the failed retry every failure classified as
\* rate-limiting is RateLimited (429), every failure classified as
\* authentication is AuthFailed, every other failure is AnalysisFailed.
C2_ByClassification ==
    RetryFailed =>
        /\ Classified /\ is_rate_limit(Caught(TheCall.out)) =>
              TheCall.kind = "RateLimited" /\ TheCall.status = 429
        /\ Classified /\ is_auth_error(Caught(TheCall.out)) =>
              TheCall.kind = "AuthFailed"
        /\ ~(Classified /\ (is_rate_limit(Caught(TheCall.out))
                              \/ is_auth_error(Caught(TheCall.out)))) =>
              TheCall.kind = "AnalysisFailed"

\* C2 amended: after the failed retry a failure classified as
\* authentication is AuthFailed (500) even when it is classified as
\* rate-limiting too; one classified as rate-limiting and not as
\* authentication is RateLimited (429); every other failure, every
\* validation failure included, is AnalysisFailed (500).
C2_AuthenticationFirst ==
    RetryFailed =>
        /\ Classified /\ is_auth_error(Caught(TheCall.out)) =>
              TheCall.kind = "AuthFailed" /\ TheCall.status = 500
        /\ Classified /\ is_rate_limit(Caught(TheCall.out))
                      /\ ~is_auth_error(Caught(TheCall.out)) =>
              TheCall.kind = "RateLimited" /\ TheCall.status = 429
        /\ ~(Classified /\ (is_rate_limit(Caught(TheCall.out))
                              \/ is_auth_error(Caught(TheCall.out)))) =>
              TheCall.kind = "AnalysisFailed" /\ TheCall.status = 500

C2_Witness ==
    /\ RetryFailed
    /\ Classified
    /\ is_rate_limit(Caught(TheCall.out))
    /\ is_auth_error(Caught(TheCall.out))
    /\ TheCall.kind = "AuthFailed"

\* C7: every list the suggestion call returns is non-empty and holds only
\* objects with title, chart_type, parameters and insight, parameters an
\* object and chart_type one of the six suggested types: never box, never
\* heatmap.
C7_ReturnedListIsValid ==
    TheCall.status = 200 =>
        /\ Len(TheCall.result) >= 1
        /\ \A i \in 1..Len(TheCall.result) :
              /\ WellFormedViz(TheCall.result[i])
              /\ TheCall.result[i].chart_type \notin {"box", "heatmap"}

C7_Witness ==
    /\ TheCall.status = 200
    /\ Len(TheCall.result) = 2
    /\ TheCall.result[1].chart_type = "bar"
    /\ TheCall.result[2].chart_type = "histogram"


\* the chart request that has just been answered, seen as a step: the
\* unprimed variables are the server before it, last' is its response
ChartStep == last.op = "none" /\ last'.op = "chart"

\* the session a chart request names, when the request finds it alive
Live(session_id) ==
    /\ session_id \in DOMAIN cache
    /\ ~(cache[session_id].expires_at < now)

\* the roles the chart aggregator's contract requires of each chart type
RequiredRoles(chart_type) ==
    CASE chart_type \in {"bar", "line", "scatter", "area", "box"} -> {"x_axis", "y_axis"}
      [] chart_type = "pie" -> {"labels", "values"}
      [] chart_type = "histogram" -> {"column"}
      [] chart_type = "heatmap" -> {"rows", "columns", "values"}

\* the parameters omit a required role, or name a column the table lacks
OmitsOrMisnames(df, chart_type, parameters) ==
    \E role \in RequiredRoles(chart_type) :
        \/ parameters[role] = Absent
        \/ \A j \in 1..Len(df.cols) : df.cols[j].name # parameters[role]

C6_Step ==
    ( /\ ChartStep
      /\ Live(last'.sid)
      /\ last'.chart_type \in {"bar", "line", "scatter", "area", "pie",
                               "histogram", "box", "heatmap"}
      /\ OmitsOrMisnames(cache[last'.sid].dataframe, last'.chart_type, last'.parameters) )
    => last'.status = 400 /\ last'.kind = "InvalidParameters"

\* C6: for each of the eight chart types, a request on a live session whose
\* parameters omit a required role or name a column that is not in the
\* table is answered 400 InvalidParameters, never 200 and never 500.
C6_BadParametersRejected == [][C6_Step]_vars

C6_Witness ==
    /\ last.op = "chart"
    /\ last.chart_type = "heatmap"
    /\ last.parameters["rows"] = "x"
    /\ last.parameters["columns"] = "y"
    /\ last.parameters["values"] = "zz"
    /\ last.sid \in DOMAIN cache
    /\ last.status = 400

C8_Step == ChartStep /\ Live(last'.sid) => cache' = cache

\* C8: a chart request on a session that is not expired leaves the cache as
\* it was, whether it succeeds or fails validation: the same session ids,
\* tables, created_at and expires_at.
C8_ChartRequestReadsOnly == [][C8_Step]_vars

C8_Witness ==
    /\ last.op = "chart"
    /\ last.status = 200
    /\ last.sid \in DOMAIN cache
    /\ now >= Hour - 1
    /\ cache[last.sid].expires_at >= now

\* a string that is "nan", "none" or empty whatever its case
ReadsAsNull(t) ==
    \/ Len(t) = 0
    \/ /\ Len(t) = 3
       /\ t[1] \in {"n", "N"} /\ t[2] \in {"a", "A"} /\ t[3] \in {"n", "N"}
    \/ /\ Len(t) = 4
       /\ t[1] \in {"n", "N"} /\ t[2] \in {"o", "O"}
       /\ t[3] \in {"n", "N"} /\ t[4] \in {"e", "E"}

\* null, a finite number, or a string that does not read as null
Normalized(v) ==
    \/ v.k = "None"
    \/ v.k \in {"float", "int"}
    \/ v.k = "str" /\ ~ReadsAsNull(v.s)

\* C10: clean_value applied twice equals clean_value applied once, and its
\* result is null, a finite number, or a string other than "nan", "none"
\* and "" in any case.
C10_NormalizeIdempotent ==
    /\ step \in {"once", "twice"} => Normalized(out1)
    /\ step = "twice" => out2 = out1

C10_Witness ==
    /\ step = "twice"
    /\ arg = Str(<<"N", "a", "N">>)
    /\ out1 = None
    /\ out2 = None

\* no cell of the table is NaN or an infinity
NoNanNoInf(df) ==
    \A j \in 1..Len(df.cols) : \A i \in 1..Len(df.cols[j].cells) :
        df.cols[j].cells[i].k \notin {"nan", "inf"}

\* C9 as claimed: after the cleaning steps no cell is NaN or +-Infinity,
\* the table has at most the original number of rows, and its columns are
\* the original ones in the original order.
C9_CleanedTable ==
    step = "clean" =>
        /\ NoNanNoInf(out1)
        /\ out1.n <= arg.n
        /\ ColumnNames(out1) = ColumnNames(arg)

\* the part of C9 that the cleaning steps do keep
C9_ShapeKept ==
    step = "clean" =>
        /\ \A j \in 1..Len(out1.cols) : \A i \in 1..Len(out1.cols[j].cells) :
              out1.cols[j].cells[i].k # "inf"
        /\ out1.n <= arg.n
        /\ ColumnNames(out1) = ColumnNames(arg)

\* C3 as claimed: an upload that ended in an error left no session entry.
C3_NoEntryAfterFailedUpload ==
    \A r \in Reqs :
        req[r].pc = "done" /\ req[r].status # 200 => req[r].sid \notin DOMAIN cache

C4_Step ==
    ChartStep =>
        LET s == last'.sid
        IN  /\ s \notin DOMAIN cache =>
                  last'.status = 404 /\ last'.kind = "NotFound"
            /\ s \in DOMAIN cache /\ now < cache[s].expires_at =>
                  last'.status # 404 /\ cache' = cache
            /\ s \in DOMAIN cache /\ now > cache[s].expires_at =>
                  /\ last'.status = 404
                  /\ last'.kind = "Expired"
                  /\ s \notin DOMAIN cache'
            /\ s \in DOMAIN cache /\ now > cache[s].created_at + Hour =>
                  last'.status = 404
            /\ s \in DOMAIN cache /\ now < cache[s].created_at + Hour =>
                  last'.status # 404

\* C4 as claimed: a get before expires_at returns the table, a get of an
\* absent id is NotFound, the first get past expires_at is Expired and
\* removes the entry; a get just after created_at + 1 hour is refused and
\* one just before created_at + 1 hour succeeds.
C4_GetBySessionAge == [][C4_Step]_vars

\* the part of C4 that is stated against expires_at
C4_GetByExpiry ==
    [][ChartStep =>
          LET s == last'.sid
          IN  /\ s \notin DOMAIN cache =>
                    last'.status = 404 /\ last'.kind = "NotFound"
              /\ s \in DOMAIN cache /\ now < cache[s].expires_at =>
                    last'.status # 404 /\ cache' = cache
              /\ s \in DOMAIN cache /\ now > cache[s].expires_at =>
                    /\ last'.status = 404
                    /\ last'.kind = "Expired"
                    /\ s \notin DOMAIN cache']_vars

\* C5 as claimed: an upload whose table has no row is answered 400
\* EmptyInput and stores no session.
C5_ZeroRowsIsEmptyInput ==
    \A r \in Reqs :
        req[r].pc = "done" /\ req[r].rows = 0 =>
            /\ req[r].status = 400
            /\ req[r].kind = "EmptyInput"
            /\ req[r].sid \notin DOMAIN cache

\* the part of C5 that holds: such an upload stores no session
C5_ZeroRowsStoresNothing ==
    \A r \in Reqs :
        req[r].pc = "done" /\ req[r].rows = 0 =>
            req[r].status \in {400, 500} /\ req[r].sid \notin DOMAIN cache


\* the chart request of one of the types has just been answered with a payload
Answered(types) == last.op = "chart" /\ last.status = 200 /\ last.chart_type \in types

\* the table the aggregation was asked of, its category and value columns
TheTable == cache[1].dataframe
XCol == ColumnOf(TheTable, "x")
YCol == ColumnOf(TheTable, "y")

XYTypes == {"bar", "line", "scatter", "area"}

\* the distinct values of a column, a missing cell being one value
DistinctValues(col) ==
    { IF IsNa(col.cells[i]) THEN None ELSE col.cells[i] : i \in DOMAIN col.cells }

\* the rows of the group of the value v
GroupRows(col, v) ==
    { i \in DOMAIN col.cells : IF IsNa(v) THEN IsNa(col.cells[i]) ELSE col.cells[i] = v }

\* the label stands for the value v, as itself or as its text
Names(label, v) ==
    IF IsNa(v) THEN label = Str(<<>>)
    ELSE label = Box(v) \/ label = Str(AsStr(v))

\* the payload has one label for each of the values vs and no other, with
\* the sum of y over the group when y is numeric, else the size of the group
GroupedOver(vs, data) ==
    /\ Len(data.labels) = Cardinality(vs)
    /\ Len(data.values) = Cardinality(vs)
    /\ \A v \in vs :
          \E g \in DOMAIN data.labels :
              /\ Names(data.labels[g], v)
              /\ IF IsNumericDtype(YCol)
                 THEN /\ data.values[g].k \in {"int", "float"}
                      /\ data.values[g].n = SumCells(YCol.cells, GroupRows(XCol, v))
                 ELSE data.values[g] = PyInt(Cardinality(GroupRows(XCol, v)))

\* the payload has one entry per row, in row order: x as text, y with 0 for
\* a missing cell
PassedThrough(data) ==
    /\ Len(data.labels) = TheTable.n
    /\ Len(data.values) = TheTable.n
    /\ \A i \in 1..TheTable.n :
          /\ data.labels[i].k = "str"
          /\ Names(data.labels[i], XCol.cells[i])
          /\ IF IsNa(YCol.cells[i])
             THEN data.values[i].k \in {"int", "float"} /\ data.values[i].n = 0
             ELSE data.values[i] = Box(YCol.cells[i])

\* x = [a, a, b], y = [10, 20, 5] gives labels [a, b] and values [30, 5]
SalesExample ==
    TheTable = SalesTable /\ Answered(XYTypes \cup {"pie"}) =>
        /\ last.data.labels = << Str(<<"a">>), Str(<<"b">>) >>
        /\ last.data.values = << PyInt(30), PyInt(20 - 15) >>

\* C11 as claimed: bar, line, scatter and area give one label per distinct
\* x value with the sum (numeric y) or the row count of its group when x has
\* duplicate values, and one entry per row in row order (x as text, missing
\* y as 0) when it has none; pie always groups; x = [a, a, b] with
\* y = [10, 20, 5] gives labels [a, b] and values [30, 5].
C11_AggregationAsClaimed ==
    /\ Answered(XYTypes) =>
          IF Cardinality(DistinctValues(XCol)) < TheTable.n
          THEN GroupedOver(DistinctValues(XCol), last.data)
          ELSE PassedThrough(last.data)
    /\ Answered({"pie"}) => GroupedOver(DistinctValues(XCol), last.data)
    /\ SalesExample

\* the part of C11 that holds: the groups are those of the x values that
\* are present; the rows whose x is missing are in no group
C11_GroupsOfPresentValues ==
    /\ Answered(XYTypes) =>
          IF Cardinality(DistinctValues(XCol)) < TheTable.n
          THEN GroupedOver(DistinctValues(XCol) \ {None}, last.data)
          ELSE PassedThrough(last.data)
    /\ Answered({"pie"}) => GroupedOver(DistinctValues(XCol) \ {None}, last.data)
    /\ SalesExample


\* the rows of the category c that have a y value
BoxRows(c) == { i \in 1..TheTable.n : XCol.cells[i] = c /\ ~IsNa(YCol.cells[i]) }

\* the x values that are present and have at least one y value
BoxCategories ==
    { XCol.cells[i] : i \in { j \in 1..TheTable.n :
                                ~IsNa(XCol.cells[j]) /\ BoxRows(XCol.cells[j]) # {} } }

\* the k-th smallest y value of the category, in 1/800
RankValue(c, k) ==
    LET vs == { Fine(YCol.cells[i]) : i \in BoxRows(c) }
    IN  CHOOSE v \in vs :
           /\ Cardinality({ i \in BoxRows(c) : Fine(YCol.cells[i]) < v }) < k
           /\ Cardinality({ i \in BoxRows(c) : Fine(YCol.cells[i]) <= v }) >= k

\* the quantile quarters / 4 by linear interpolation: the value at the
\* fractional rank 1 + (n - 1) * quarters / 4
LinearQuantile(c, quarters) ==
    LET pos == (Cardinality(BoxRows(c)) - 1) * quarters
        lo == pos \div 4 + 1
    IN  IF pos % 4 = 0 THEN RankValue(c, lo)
        ELSE RankValue(c, lo) + ((pos % 4) * (RankValue(c, lo + 1) - RankValue(c, lo))) \div 4

\* the record r is the box of the category c
IsBoxOf(r, c) ==
    LET n == Cardinality(BoxRows(c))
        reach == (3 * (r.q3 - r.q1)) \div 2
        outside == { i \in BoxRows(c) : \/ Fine(YCol.cells[i]) < r.lower_whisker
                                        \/ Fine(YCol.cells[i]) > r.upper_whisker }
    IN  /\ r.category = Str(AsStr(c))
        /\ r.q1 = LinearQuantile(c, 1)
        /\ r.median = LinearQuantile(c, 2)
        /\ r.q3 = LinearQuantile(c, 3)
        /\ r.min = RankValue(c, 1)
        /\ r.max = RankValue(c, n)
        /\ r.lower_whisker = (IF r.min > r.q1 - reach THEN r.min ELSE r.q1 - reach)
        /\ r.upper_whisker = (IF r.max < r.q3 + reach THEN r.max ELSE r.q3 + reach)
        /\ Len(r.outliers) = Cardinality(outside)
        /\ \A v \in { Box(YCol.cells[i]) : i \in outside } :
              Cardinality({ o \in DOMAIN r.outliers : r.outliers[o] = v }) =
              Cardinality({ i \in outside : Box(YCol.cells[i]) = v })

\* one record per category, each the box of its category
BoxPerCategory ==
    Answered({"box"}) =>
        /\ Len(last.data.data) = Cardinality(BoxCategories)
        /\ \A c \in BoxCategories :
              \E g \in DOMAIN last.data.data : IsBoxOf(last.data.data[g], c)

\* the record of y = [1, 2, 3, 4, 5, 100] has the quartiles q1, median and
\* q3, the upper whisker and the outliers given (statistics in 1/800)
BoxExample(q1, median, q3, upper_whisker, outliers) ==
    Answered({"box"}) /\ TheTable = BoxTable =>
        /\ Len(last.data.data) = 1
        /\ last.data.data[1].q1 = q1
        /\ last.data.data[1].median = median
        /\ last.data.data[1].q3 = q3
        /\ last.data.data[1].upper_whisker = upper_whisker
        /\ last.data.data[1].outliers = outliers

\* C12 as claimed: box gives one record per distinct non-null x category
\* with a non-null y; q1, median, q3 by linear interpolation; lower_whisker
\* = max(min, q1 - 1.5 IQR), upper_whisker = min(max, q3 + 1.5 IQR); the
\* outliers are the y values strictly outside the whiskers; and for
\* y = [1, 2, 3, 4, 5, 100]: q1 = 2.25, median = 3.5, q3 = 4.25,
\* upper_whisker = 7.25, outliers = [100].
C12_BoxAsClaimed ==
    /\ BoxPerCategory
    /\ BoxExample(1800, 2800, 3400, 5800, << PyInt(100) >>)

\* C12 amended: the same rules, and for y = [1, 2, 3, 4, 5, 100] they give
\* q1 = 2.25, median = 3.5, q3 = 4.75, upper_whisker = 8.5, outliers = [100].
C12_BoxStatistics ==
    /\ BoxPerCategory
    /\ BoxExample(1800, 2800, 3800, 6800, << PyInt(100) >>)

\* a box request answered on y = [1, 2, 3, 4, 5, 100] with 100 an outlier
C12_Witness ==
    /\ Answered({"box"})
    /\ TheTable = BoxTable
    /\ Len(last.data.data) = 1
    /\ last.data.data[1].outliers = << PyInt(100) >>
    /\ last.data.data[1].q3 = 3800

\* a box request answered with two categories, one holding two values
C12_TwoCategories ==
    /\ Answered({"box"})
    /\ Len(last.data.data) = 2
    /\ \E c \in BoxCategories : Cardinality(BoxRows(c)) = 2


\* the number of y values that are present
NonNull == Cardinality({ i \in 1..TheTable.n : ~IsNa(YCol.cells[i]) })

\* floor(1 + 3.322 * log10(n)) for the counts of values of the tables:
\* 1 + 3.322 * log10(n) is 1 at n = 1, 2.00002 at 2, 2.58 at 3, 3.00004 at 4,
\* 3.32 at 5, 3.59 at 6, 3.81 at 7 and 7.64 at n = 100
Floor1Plus3322Log10(n) ==
    CASE n = 1 -> 1
      [] n \in 2..3 -> 2
      [] n \in 4..7 -> 3
      [] n = 100 -> 7

RECURSIVE SumOfCounts(_)
SumOfCounts(counts) ==
    IF counts = <<>> THEN 0 ELSE Head(counts).n + SumOfCounts(Tail(counts))

\* a / b < c / d on fractions with positive denominators
FracLess(p, q) == p.num * q.den < q.num * p.den

C13_NoValueAsked ==
    /\ last.op = "chart" /\ last.chart_type = "histogram"
    /\ IsNumericDtype(YCol) /\ NonNull = 0
    /\ last.kind = "InvalidParameters"

\* a histogram of three values, two of them equal
C13_ThreeValues ==
    /\ Answered({"histogram"})
    /\ NonNull = 3
    /\ \E b \in DOMAIN last.data.counts : last.data.counts[b].n = 2


\* the positions inside a cache operation: between the put and the end of
\* the sweep of an upload, between the presence check and the return or the
\* eviction of a lookup
InCacheOperation(pc) == pc \in {"sweep", "sweep_del", "read", "evict"}

\* C14: under every interleaving of uploads and lookups, a request inside
\* its insert-then-sweep or its check-read-evict sequence holds the event
\* loop, so no other request's cache operation runs in between: the entry
\* a lookup has found present is still there when it is read or deleted,
\* the keys a sweep has listed are still there when it deletes them, and
\* a lookup ends with the table, NotFound or Expired, never anything else.
C14_CacheAccessSerialized ==
    \A i \in Uploads \cup Lookups :
        /\ InCacheOperation(tasks[i].pc) =>
              /\ running = i
              /\ \A j \in (Uploads \cup Lookups) \ {i} : ~InCacheOperation(tasks[j].pc)
        /\ tasks[i].pc \in {"read", "evict"} => tasks[i].sid \in DOMAIN cache
        /\ tasks[i].pc = "sweep_del" => tasks[i].keys \subseteq DOMAIN cache
        /\ i \in Lookups /\ tasks[i].pc = "done" =>
              <<tasks[i].status, tasks[i].kind>> \in
                  { <<200, "">>, <<404, "NotFound">>, <<404, "Expired">> }
        /\ i \in Uploads /\ tasks[i].pc = "done" => tasks[i].status = 200

\* the steps of other requests never change the cache while a request is
\* inside a cache operation
C14_NoInterleavedWrite ==
    [][\A i \in Uploads \cup Lookups :
          InCacheOperation(tasks[i].pc) /\ cache' # cache => tasks'[i] # tasks[i]]_vars

\* a lookup is about to evict an expired entry while another lookup of the
\* same session and an upload are in flight
C14_Witness ==
    /\ tasks["g1"].pc = "evict"
    /\ tasks["g2"].pc = "done" /\ tasks["g2"].sid = tasks["g1"].sid
    /\ tasks["u2"].pc \in {"reading", "sleeping"}
    /\ tasks["g1"].sid \in DOMAIN cache

\* a sweep is about to delete the key it listed, after a lookup of that
\* session has returned its table and while the other upload is suspended
C14_SweepWitness ==
    \E i \in Uploads, g \in Lookups :
        /\ tasks[i].pc = "sweep_del" /\ tasks[i].keys # {}
        /\ tasks[g].pc = "done" /\ tasks[g].status = 200 /\ tasks[g].sid \in tasks[i].keys
        /\ \E j \in Uploads \ {i} : tasks[j].pc = "sleeping"


\* C15 as claimed: every entry an upload has stored has expires_at =
\* created_at + 1 hour exactly, whatever the clock read during the put.
C15_ExpiryIsCreationPlusHour ==
    \A s \in DOMAIN cache : cache[s].expires_at = cache[s].created_at + Hour

\* the part of C15 that holds: expires_at is one hour after the second
\* reading of the clock, which is not before the first
C15_ExpiryAfterCreation ==
    \A s \in DOMAIN cache :
        \E d \in ClockSkew : cache[s].expires_at = cache[s].created_at + d + Hour


\* the request r has just put its entry and swept the cache
PutAndSweep(r) == req[r].pc = "reading" /\ req'[r].pc = "analyze"

\* C16: the sweep that follows every put of an upload, before the
\* suggestion step starts, removes every entry whose expires_at is in the
\* past and no other: right after it the cache holds no expired entry, holds
\* the entry just inserted, and every entry that has not expired is as it
\* was; no step of an upload puts without sweeping.
C16_Step ==
    \A r \in Reqs :
        /\ PutAndSweep(r) =>
              /\ \A s \in DOMAIN cache' : ~(cache'[s].expires_at < now')
              /\ req'[r].sid \in DOMAIN cache' \ DOMAIN cache
              /\ req'[r].calls = 0
              /\ DOMAIN cache' \subseteq DOMAIN cache \cup {req'[r].sid}
              /\ \A s \in DOMAIN cache :
                    IF cache[s].expires_at < now' THEN s \notin DOMAIN cache'
                    ELSE s \in DOMAIN cache' /\ cache'[s] = cache[s]
        /\ (\E s \in DOMAIN cache' \ DOMAIN cache : TRUE) => \E q \in Reqs : PutAndSweep(q)

C16_SweepAfterPut == [][C16_Step]_vars

\* an upload has just put the second session after the first one's hour,
\* and the first session is gone while the suggestion step has not started
C16_Witness ==
    \E r \in Reqs :
        /\ req[r].pc = "analyze" /\ req[r].calls = 0 /\ req[r].sid = 2
        /\ now > Hour
        /\ DOMAIN cache = {2}
        /\ cache[2].created_at > Hour


\* the failed attempt is a failure of the call that is classified as
\* rate-limiting: status 429 or a rate-limit marker in its message
RateLimiting(o) ==
    /\ o.kind = "raises"
    /\ \/ o.exc.status_code = 429
       \/ o.exc.msg \cap {"rate limit", "quota", "rate_limit_exceeded", "429"} # {}

C17_CallState ==
    /\ TheCall.calls = 0 => TheCall.pc \in {"analyze", "done"} /\ TheCall.wake = 0
    /\ TheCall.pc = "sleeping" =>
          /\ TheCall.calls = 1
          /\ TheCall.wake - now <= 5
    /\ TheCall.calls = 2 => TheCall.pc = "done"

C17_CallStep ==
    /\ TheCall'.pc = "sleeping" /\ TheCall.pc # "sleeping" =>
          /\ TheCall.pc = "analyze" /\ TheCall.calls = 0 /\ TheCall'.calls = 1
          /\ ~ValidReply(TheCall'.out)
          /\ TheCall'.wake = now + (IF RateLimiting(TheCall'.out) THEN 5 ELSE 1)
    /\ TheCall.pc = "sleeping" /\ TheCall'.pc # "sleeping" =>
          TheCall'.pc = "analyze" /\ now >= TheCall.wake /\ now' = now
    /\ TheCall'.calls # TheCall.calls => now' = now
    /\ TheCall.calls = 1 /\ TheCall'.calls = 2 => TheCall'.pc = "done"

\* C17: the call sleeps only between its first failure and its retry, 5
\* seconds when that failure is classified as rate-limiting and 1 second
\* for any other failure; the first attempt starts without a delay, the
\* retry starts no earlier than the end of the sleep, and the retry's
\* outcome ends the call at once, so one call sleeps at most 5 seconds.
C17_RetryDelays == [](C17_CallState) /\ [][C17_CallStep]_vars

\* the call sleeps 5 seconds after a rate-limited first attempt
C17_Witness ==
    /\ TheCall.pc = "sleeping"
    /\ RateLimiting(TheCall.out)
    /\ TheCall.wake = now + 5

\* the call has slept one second after a reply that is not JSON and is
\* about to retry
C17_ShortWitness ==
    /\ TheCall.pc = "analyze" /\ TheCall.calls = 1 /\ now = 1


\* what the text of a cell denotes once "$", commas and the surrounding
\* whitespace are gone: a number in hundredths, an infinity, or nothing
Denotes(cell) ==
    CASE cell = T(<<"$", "1", ",", "2", "0", "0">>) -> [kind |-> "number", h |-> 120000]
      [] cell = T(<<"$", "1", ",", "2", "3", "4", ".", "5", "0">>) ->
            [kind |-> "number", h |-> 123450]
      [] cell = T(<<" ", "1", "2", ".", "5">>) -> [kind |-> "number", h |-> 1250]
      [] cell = T(<<"i", "n", "f">>) -> [kind |-> "inf", h |-> 0]
      [] OTHER -> [kind |-> "null", h |-> 0]

\* the converted cell holds what the text denotes, null for no number
ConvertedFrom(new, cell) ==
    CASE Denotes(cell).kind = "number" ->
            new.k \in {"float", "npint"} /\ Hund(new) = Denotes(cell).h
      [] Denotes(cell).kind = "inf" -> new = PosInf
      [] OTHER -> new = NaN

\* the conversion step of the cleaner has just run
Coerced == step = "dropped" /\ step' = "coerced"

C18_Step ==
    Coerced =>
        /\ out1'.n = out1.n
        /\ ColumnNames(out1') = ColumnNames(out1)
        /\ \A j \in DOMAIN out1.cols :
              IF /\ out1.cols[j].dtype = "object"
                 /\ \E i \in 1..out1.n : Denotes(out1.cols[j].cells[i]).kind # "null"
              THEN /\ IsNumericDtype(out1'.cols[j])
                   /\ \A i \in 1..out1.n :
                         ConvertedFrom(out1'.cols[j].cells[i], out1.cols[j].cells[i])
              ELSE out1'.cols[j] = out1.cols[j]
        /\ out1 = PriceTable =>
              /\ out1'.cols[1].cells = << Float(123450), Float(123450) >>
              /\ out1'.cols[2].cells = << Float(120000), NaN >>

\* C18: the cleaner converts a text column as a whole or not at all: the
\* column is replaced by its numeric conversion, the cells that do not
\* parse becoming null, exactly when at least one cell parses to a number
\* once "$", commas and surrounding whitespace are stripped; otherwise it
\* keeps its text unchanged.  "$1,234.50" in every row becomes 1234.50 in
\* every row; "$1,200" beside "N/A" becomes 1200 and null.
C18_AllOrNothing == [][C18_Step]_vars

\* the conversion has run on the table of the two examples
C18_Witness ==
    /\ step = "coerced"
    /\ arg = PriceTable
    /\ out1.cols[1].cells = << Float(123450), Float(123450) >>
    /\ out1.cols[2].cells = << Float(120000), NaN >>

\* the conversion has left a text column without a number as it was,
\* beside a column it has converted
C18_KeptWitness ==
    /\ step = "coerced"
    /\ out1.n = 2
    /\ out1.cols[1] = Column("x", "object", << T(<<"N", "/", "A">>), NaN >>)
    /\ out1.cols[2].dtype = "float64" /\ arg.cols[2].dtype = "object"

=============================================================================
